---------------------------- MODULE Spec2Model ----------------------------
(***************************************************************************)
(* A model of the SPV verification library (src/lib/src/lib.rs), of the    *)
(* zkVM guest program (src/program/src/main.rs) and of the /prove request  *)
(* handler (src/client/src/server/handlers.rs).                            *)
(*                                                                         *)
(* Representation.                                                         *)
(*   - a byte string is a sequence of numbers 0..255;                      *)
(*   - a text string (&str / String) is a sequence of ASCII codes;         *)
(*   - a u64 is its 8 little-endian bytes grouped in 4 limbs of 16 bits,   *)
(*     least significant limb first (the numbers of the model checker are  *)
(*     32 bits wide, 2^64 does not fit one);                               *)
(*   - Result<T, String> is a record [kind, val, err]; kind is "Ok", "Err" *)
(*     or "Panic" (the call unwinds and returns nothing).                  *)
(*   - Sha256 of the sha2 crate is replaced by a small keyed polynomial    *)
(*     digest with a 32-byte output; sha256d applies it twice, as the      *)
(*     code does.                                                          *)
(***************************************************************************)
EXTENDS Integers, Sequences, FiniteSets, TLC

(***************************************************************************)
(* Results                                                                 *)
(***************************************************************************)
Ok(v) == [kind |-> "Ok", val |-> v, err |-> ""]

Err(e) == [kind |-> "Err", val |-> <<>>, err |-> e]

Panic(e) == [kind |-> "Panic", val |-> <<>>, err |-> e]

IsOk(r) == r.kind = "Ok"

IsErr(r) == r.kind = "Err"

IsPanic(r) == r.kind = "Panic"

(***************************************************************************)
(* Byte strings                                                            *)
(***************************************************************************)
Reverse(s) == [i \in 1..Len(s) |-> s[Len(s) + 1 - i]]

Slice(s, from, to) == [i \in 1..(to - from) |-> s[from + i]]

Repeat(b, n) == [i \in 1..n |-> b]

RECURSIVE Flatten(_)
Flatten(ss) == IF ss = <<>> THEN <<>> ELSE Head(ss) \o Flatten(Tail(ss))

IsPrefix(p, s) == Len(p) <= Len(s) /\ \A i \in 1..Len(p) : s[i] = p[i]

(***************************************************************************)
(* hex::decode and hex::encode                                             *)
(***************************************************************************)
HexVal(c) ==
    IF c >= 48 /\ c <= 57 THEN c - 48
    ELSE IF c >= 97 /\ c <= 102 THEN c - 87
    ELSE IF c >= 65 /\ c <= 70 THEN c - 55
    ELSE -1

HexDigit(n) == IF n < 10 THEN 48 + n ELSE 87 + n

hex_decode(s) ==
    IF Len(s) % 2 # 0 THEN Err("Odd number of digits")
    ELSE IF \E i \in 1..Len(s) : HexVal(s[i]) < 0 THEN Err("Invalid character")
    ELSE Ok([i \in 1..(Len(s) \div 2) |-> 16 * HexVal(s[2 * i - 1]) + HexVal(s[2 * i])])

hex_encode(b) ==
    [i \in 1..(2 * Len(b)) |->
        IF i % 2 = 1 THEN HexDigit(b[(i + 1) \div 2] \div 16)
        ELSE HexDigit(b[i \div 2] % 16)]

(***************************************************************************)
(* Sha256::digest and sha256d                                              *)
(***************************************************************************)
\* the digest of data[lo..hi] as a polynomial in mul modulo mod, and mul^(hi-lo+1);
\* computed by halving, so that long inputs do not nest deeply
RECURSIVE Absorb(_, _, _, _, _)
Absorb(data, lo, hi, mul, mod) ==
    IF lo > hi THEN [v |-> 0, m |-> 1]
    ELSE IF lo = hi THEN [v |-> (data[lo] + 1) % mod, m |-> mul % mod]
    ELSE LET mid == (lo + hi) \div 2
             l == Absorb(data, lo, mid, mul, mod)
             r == Absorb(data, mid + 1, hi, mul, mod)
         IN  [v |-> (l.v * r.m + r.v) % mod, m |-> (l.m * r.m) % mod]

Sha256(data) ==
    LET a == (Absorb(data, 1, Len(data), 257, 46337).v + 7 * Len(data) + 1) % 46337
        b == (Absorb(data, 1, Len(data), 263, 46327).v + 11 * Len(data) + 3) % 46327
    IN  [k \in 1..32 |->
            IF k = 1 THEN a % 256
            ELSE IF k = 2 THEN a \div 256
            ELSE IF k = 3 THEN b % 256
            ELSE IF k = 4 THEN b \div 256
            ELSE (a * k + b * (k + 3) + k * k) % 256]

sha256d(data) ==
    LET first == Sha256(data)
        second == Sha256(first)
    IN  second

(***************************************************************************)
(* u64 / usize arithmetic on 4 limbs of 16 bits, least significant first   *)
(***************************************************************************)
LimbBase == 256 * 256

U64OfInt(n) == <<n % LimbBase, n \div LimbBase, 0, 0>>

U64Zero == <<0, 0, 0, 0>>

U64Max == <<LimbBase - 1, LimbBase - 1, LimbBase - 1, LimbBase - 1>>

\* u16::from_le_bytes, u32::from_le_bytes, u64::from_le_bytes, then `as u64`
u16_from_le_bytes(b) == <<b[1] + 256 * b[2], 0, 0, 0>>

u32_from_le_bytes(b) == <<b[1] + 256 * b[2], b[3] + 256 * b[4], 0, 0>>

\* u64::from_be_bytes in the place of from_le_bytes
u64_from_be_bytes(b) == [i \in 1..4 |-> b[10 - 2 * i] + 256 * b[9 - 2 * i]]

u64_from_le_bytes(b) == [i \in 1..4 |-> b[2 * i - 1] + 256 * b[2 * i]]

\* the sum of two u64 modulo 2^64, and the carry out of the top limb
U64Add(a, b) ==
    LET s1 == a[1] + b[1]
        s2 == a[2] + b[2] + (s1 \div LimbBase)
        s3 == a[3] + b[3] + (s2 \div LimbBase)
        s4 == a[4] + b[4] + (s3 \div LimbBase)
    IN  [sum |-> <<s1 % LimbBase, s2 % LimbBase, s3 % LimbBase, s4 % LimbBase>>,
         carry |-> s4 \div LimbBase]

\* u64::wrapping_add in the place of checked_add
wrapping_add(a, b) == [some |-> TRUE, val |-> U64Add(a, b).sum]

\* u64::checked_add: None on overflow
checked_add(a, b) ==
    LET r == U64Add(a, b)
    IN  IF r.carry # 0 THEN [some |-> FALSE, val |-> U64Zero]
        ELSE [some |-> TRUE, val |-> r.sum]

U64Lt(a, b) ==
    \E i \in 1..4 : a[i] < b[i] /\ \A j \in (i + 1)..4 : a[j] = b[j]

\* a u64 that is known to be small, as a number of the model
U64Fits(a) == a[3] = 0 /\ a[4] = 0 /\ a[2] < 16384

U64ToInt(a) == a[1] + LimbBase * a[2]

\* does the u64 exceed the (small) number n
U64GtInt(a, n) == IF U64Fits(a) THEN U64ToInt(a) > n ELSE TRUE

(***************************************************************************)
(* parse_varint                                                            *)
(***************************************************************************)
\* parse_varint, were the 0xfe form to report four consumed bytes
parse_varint_fe_consumes_four(data) ==
    IF Len(data) = 0 THEN Err("empty varint")
    ELSE IF data[1] = 253 THEN
        IF Len(data) < 3 THEN Err("varint too short for 0xfd")
        ELSE Ok([value |-> u16_from_le_bytes(<<data[2], data[3]>>), len |-> 3])
    ELSE IF data[1] = 254 THEN
        IF Len(data) < 5 THEN Err("varint too short for 0xfe")
        ELSE Ok([value |-> u32_from_le_bytes(<<data[2], data[3], data[4], data[5]>>),
                 len |-> 4])
    ELSE IF data[1] = 255 THEN
        IF Len(data) < 9 THEN Err("varint too short for 0xff")
        ELSE Ok([value |-> u64_from_le_bytes(Slice(data, 1, 9)), len |-> 9])
    ELSE Ok([value |-> U64OfInt(data[1]), len |-> 1])

parse_varint(data) ==
    IF Len(data) = 0 THEN Err("empty varint")
    ELSE IF data[1] = 253 THEN
        IF Len(data) < 3 THEN Err("varint too short for 0xfd")
        ELSE Ok([value |-> u16_from_le_bytes(<<data[2], data[3]>>), len |-> 3])
    ELSE IF data[1] = 254 THEN
        IF Len(data) < 5 THEN Err("varint too short for 0xfe")
        ELSE Ok([value |-> u32_from_le_bytes(<<data[2], data[3], data[4], data[5]>>),
                 len |-> 5])
    ELSE IF data[1] = 255 THEN
        IF Len(data) < 9 THEN Err("varint too short for 0xff")
        ELSE Ok([value |-> u64_from_le_bytes(Slice(data, 1, 9)), len |-> 9])
    ELSE Ok([value |-> U64OfInt(data[1]), len |-> 1])

(***************************************************************************)
(* bs58::encode (Bitcoin alphabet)                                         *)
(***************************************************************************)
\* "123456789ABCDEFGHJKLMNPQRSTUVWXYZabcdefghijkmnopqrstuvwxyz"
Base58Alphabet ==
    <<49, 50, 51, 52, 53, 54, 55, 56, 57,
      65, 66, 67, 68, 69, 70, 71, 72, 74, 75, 76, 77, 78, 80, 81, 82, 83, 84, 85,
      86, 87, 88, 89, 90,
      97, 98, 99, 100, 101, 102, 103, 104, 105, 106, 107, 109, 110, 111, 112,
      113, 114, 115, 116, 117, 118, 119, 120, 121, 122>>

\* one input byte carried through the little-endian base-58 digits
RECURSIVE Base58Carry(_, _, _)
Base58Carry(digits, i, carry) ==
    IF carry < 0 THEN digits
    ELSE IF i <= Len(digits) THEN
        LET c == carry + digits[i] * 256
        IN  Base58Carry([digits EXCEPT ![i] = c % 58], i + 1, c \div 58)
    ELSE IF carry > 0 THEN Base58Carry(Append(digits, carry % 58), i + 1, carry \div 58)
    ELSE digits

RECURSIVE Base58Digits(_, _, _)
Base58Digits(input, i, digits) ==
    IF Len(digits) < 0 \/ i > Len(input) THEN digits
    ELSE Base58Digits(input, i + 1, Base58Carry(digits, 1, input[i]))

RECURSIVE LeadingZeros(_, _)
LeadingZeros(input, i) ==
    IF i <= Len(input) /\ input[i] = 0 THEN 1 + LeadingZeros(input, i + 1) ELSE 0

bs58_encode(input) ==
    LET digits == Base58Digits(input, 1, <<>>) \o Repeat(0, LeadingZeros(input, 1))
    IN  Reverse([i \in 1..Len(digits) |-> Base58Alphabet[digits[i] + 1]])

(***************************************************************************)
(* bech32::convert_bits, bech32::encode, bech32::decode                    *)
(***************************************************************************)
\* "qpzry9x8gf2tvdw0s3jn54khce6mua7l"
Bech32Charset ==
    <<113, 112, 122, 114, 121, 57, 120, 56, 103, 102, 50, 116, 118, 100, 119, 48,
      115, 51, 106, 110, 53, 52, 107, 104, 99, 101, 54, 109, 117, 97, 55, 108>>

IsUpper(c) == c >= 65 /\ c <= 90

IsLower(c) == c >= 97 /\ c <= 122

ToLower(c) == IF IsUpper(c) THEN c + 32 ELSE c

\* CHARSET_REV: the 5-bit value of a character, either case, or -1
Bech32Rev(c) ==
    IF \E v \in 1..32 : Bech32Charset[v] = ToLower(c)
    THEN (CHOOSE v \in 1..32 : Bech32Charset[v] = ToLower(c)) - 1
    ELSE -1

\* bitwise exclusive or of two numbers below 2^30, five bits at a time
RECURSIVE XorBits(_, _)
XorBits(a, b) ==
    IF a = 0 THEN b
    ELSE IF b = 0 THEN a
    ELSE ((a + b) % 2) + 2 * XorBits(a \div 2, b \div 2)

Xor5 == [a \in 0..31 |-> [b \in 0..31 |-> XorBits(a, b)]]

Xor(a, b) ==
    Xor5[a % 32][b % 32]
    + 32 * Xor5[(a \div 32) % 32][(b \div 32) % 32]
    + 1024 * Xor5[(a \div 1024) % 32][(b \div 1024) % 32]
    + 32768 * Xor5[(a \div 32768) % 32][(b \div 32768) % 32]
    + 1048576 * Xor5[(a \div 1048576) % 32][(b \div 1048576) % 32]
    + 33554432 * Xor5[(a \div 33554432) % 32][(b \div 33554432) % 32]

\* GEN of the checksum: 0x3b6a57b2, 0x26508e6d, 0x1ea119fa, 0x3d4233dd, 0x2a1462b3
Bech32Gen == <<996825010, 642813549, 513874426, 1027748829, 705979059>>

RECURSIVE GenFold(_, _, _)
GenFold(b, i, acc) ==
    IF i > 5 THEN acc
    ELSE GenFold(b, i + 1,
                 IF (b \div (2 ^ (i - 1))) % 2 = 1 THEN Xor(acc, Bech32Gen[i]) ELSE acc)

GenXor == [b \in 0..31 |-> GenFold(b, 1, 0)]

RECURSIVE Polymod(_, _, _)
Polymod(values, i, chk) ==
    IF chk < 0 \/ i > Len(values) THEN chk
    ELSE Polymod(values, i + 1,
                 Xor((chk % 33554432) * 32 + values[i], GenXor[chk \div 33554432]))

hrp_expand(hrp) ==
    [i \in 1..Len(hrp) |-> hrp[i] \div 32] \o <<0>> \o [i \in 1..Len(hrp) |-> hrp[i] % 32]

\* Variant::Bech32 has checksum constant 1, Variant::Bech32m 0x2bc830a3
VariantConst(variant) == IF variant = "Bech32" THEN 1 ELSE 734539939

bech32_checksum(hrp, data, variant) ==
    LET plm == Xor(Polymod(hrp_expand(hrp) \o data \o Repeat(0, 6), 1, 1),
                   VariantConst(variant))
    IN  [i \in 1..6 |-> (plm \div (2 ^ (5 * (6 - i)))) % 32]

\* bech32::encode for a lowercase human-readable part
bech32_encode(hrp, data, variant) ==
    LET all == data \o bech32_checksum(hrp, data, variant)
    IN  hrp \o <<49>> \o [i \in 1..Len(all) |-> Bech32Charset[all[i] + 1]]

RECURSIVE LastSep(_, _)
LastSep(s, i) == IF i = 0 THEN 0 ELSE IF s[i] = 49 THEN i ELSE LastSep(s, i - 1)

\* bech32::decode: (hrp, data without checksum, variant) or an error
bech32_decode(s) ==
    LET sep == LastSep(s, Len(s))
        raw_hrp == Slice(s, 0, sep - 1)
        raw_data == Slice(s, sep, Len(s))
        hrp_lower == [i \in 1..Len(raw_hrp) |-> ToLower(raw_hrp[i])]
        data == [i \in 1..Len(raw_data) |-> Bech32Rev(raw_data[i])]
    IN  IF sep = 0 THEN Err("missing separator")
        ELSE IF Len(raw_data) < 6 THEN Err("invalid length")
        ELSE IF Len(raw_hrp) = 0 \/ Len(raw_hrp) > 83 THEN Err("invalid length")
        ELSE IF \E i \in 1..Len(raw_hrp) : raw_hrp[i] < 33 \/ raw_hrp[i] > 126
            THEN Err("invalid character")
        ELSE IF (\E i \in 1..Len(s) : IsUpper(s[i])) /\ (\E i \in 1..Len(s) : IsLower(s[i]))
            THEN Err("mixed case")
        ELSE IF \E i \in 1..Len(raw_data) : raw_data[i] > 127 \/ data[i] < 0
            THEN Err("invalid character")
        ELSE LET plm == Polymod(hrp_expand(hrp_lower) \o data, 1, 1)
                 payload == Slice(data, 0, Len(data) - 6)
             IN  IF plm = 1 THEN Ok([hrp |-> hrp_lower, data |-> payload,
                                     variant |-> "Bech32"])
                 ELSE IF plm = VariantConst("Bech32m")
                     THEN Ok([hrp |-> hrp_lower, data |-> payload, variant |-> "Bech32m"])
                 ELSE Err("invalid checksum")

\* the inner `while bits >= to` loop of convert_bits
RECURSIVE ConvertDrain(_, _, _, _)
ConvertDrain(acc, bits, to, ret) ==
    IF bits >= to
    THEN ConvertDrain(acc % (2 ^ (bits - to)), bits - to, to,
                      Append(ret, acc \div (2 ^ (bits - to))))
    ELSE [acc |-> acc, bits |-> bits, ret |-> ret]

RECURSIVE ConvertLoop(_, _, _, _, _, _, _)
ConvertLoop(data, i, acc, bits, from, to, ret) ==
    IF acc < 0 \/ i > Len(data) THEN [bad |-> FALSE, acc |-> acc, bits |-> bits, ret |-> ret]
    ELSE IF data[i] \div (2 ^ from) # 0
        THEN [bad |-> TRUE, acc |-> acc, bits |-> bits, ret |-> ret]
    ELSE LET d == ConvertDrain(acc * (2 ^ from) + data[i], bits + from, to, ret)
         IN  ConvertLoop(data, i + 1, d.acc, d.bits, from, to, d.ret)

convert_bits(data, from, to, pad) ==
    LET r == ConvertLoop(data, 1, 0, 0, from, to, <<>>)
        rest == (r.acc * (2 ^ (to - r.bits))) % (2 ^ to)
    IN  IF r.bad THEN Err("invalid data")
        ELSE IF pad THEN Ok(IF r.bits > 0 THEN Append(r.ret, rest) ELSE r.ret)
        ELSE IF r.bits >= from \/ rest # 0 THEN Err("invalid padding")
        ELSE Ok(r.ret)

(***************************************************************************)
(* Script classification and address decoding                              *)
(***************************************************************************)
\* extract_p2pkh_address without the test of OP_EQUALVERIFY at script[23]
extract_p2pkh_unchecked_equalverify(script) ==
    IF \/ Len(script) # 25
       \/ script[1] # 118
       \/ script[2] # 169
       \/ script[3] # 20
       \/ script[25] # 172
    THEN Err("not a P2PKH script")
    ELSE LET pubkey_hash == Slice(script, 3, 23)
             address_bytes == <<0>> \o pubkey_hash
             checksum == sha256d(address_bytes)
         IN  Ok(bs58_encode(address_bytes \o Slice(checksum, 0, 4)))

extract_p2pkh_address(script) ==
    IF \/ Len(script) # 25
       \/ script[1] # 118
       \/ script[2] # 169
       \/ script[3] # 20
       \/ script[24] # 136
       \/ script[25] # 172
    THEN Err("not a P2PKH script")
    ELSE LET pubkey_hash == Slice(script, 3, 23)
             address_bytes == <<0>> \o pubkey_hash
             checksum == sha256d(address_bytes)
         IN  Ok(bs58_encode(address_bytes \o Slice(checksum, 0, 4)))

\* extract_p2wpkh_address, were the hash taken from script[1..21]
extract_p2wpkh_from_push_byte(script) ==
    IF Len(script) # 22 \/ script[1] # 0 \/ script[2] # 20
    THEN Err("not a P2WPKH script")
    ELSE LET pubkey_hash == Slice(script, 1, 21)
             converted == convert_bits(pubkey_hash, 8, 5, TRUE)
         IN  IF ~IsOk(converted) THEN Err("convert_bits failed for P2WPKH")
             ELSE Ok(bech32_encode(<<98, 99>>, <<0>> \o converted.val, "Bech32"))

extract_p2wpkh_address(script) ==
    IF Len(script) # 22 \/ script[1] # 0 \/ script[2] # 20
    THEN Err("not a P2WPKH script")
    ELSE LET pubkey_hash == Slice(script, 2, 22)
             converted == convert_bits(pubkey_hash, 8, 5, TRUE)
         IN  IF ~IsOk(converted) THEN Err("convert_bits failed for P2WPKH")
             ELSE Ok(bech32_encode(<<98, 99>>, <<0>> \o converted.val, "Bech32"))

\* decode_bech32_pubkey_hash without the test of the witness version
decode_bech32_any_version(address) ==
    LET d == bech32_decode(address)
    IN  IF ~IsOk(d) THEN Err("bech32 decode")
        ELSE IF d.val.hrp # <<98, 99>> /\ d.val.hrp # <<116, 98>> THEN Err("unexpected hrp")
        ELSE IF d.val.variant # "Bech32" THEN Err("expected Bech32 variant")
        ELSE IF Len(d.val.data) = 0 THEN Err("bech32 data empty")
        ELSE LET converted == convert_bits(Tail(d.val.data), 5, 8, FALSE)
             IN  IF ~IsOk(converted) THEN Err("convert_bits failed")
                 ELSE IF Len(converted.val) # 20 THEN Err("expected 20 bytes")
                 ELSE Ok(converted.val)

decode_bech32_pubkey_hash(address) ==
    LET d == bech32_decode(address)
    IN  IF ~IsOk(d) THEN Err("bech32 decode")
        ELSE IF d.val.hrp # <<98, 99>> /\ d.val.hrp # <<116, 98>> THEN Err("unexpected hrp")
        ELSE IF d.val.variant # "Bech32" THEN Err("expected Bech32 variant")
        ELSE IF Len(d.val.data) = 0 THEN Err("bech32 data empty")
        ELSE IF d.val.data[1] # 0 THEN Err("non-zero witness version")
        ELSE LET converted == convert_bits(Tail(d.val.data), 5, 8, FALSE)
             IN  IF ~IsOk(converted) THEN Err("convert_bits failed")
                 ELSE IF Len(converted.val) # 20 THEN Err("expected 20 bytes")
                 ELSE Ok(converted.val)

(***************************************************************************)
(* Payment aggregation                                                     *)
(***************************************************************************)
\* the loop of sum_outputs_to_target_legacy, were every output taken for a match
RECURSIVE LegacyLoopCountsAll(_, _, _, _, _)
LegacyLoopCountsAll(parsed_outputs, target_address, i, total, matched) ==
    IF i > Len(parsed_outputs) THEN
        IF ~matched THEN Err("no outputs to target") ELSE Ok(total)
    ELSE LET sum == checked_add(total, parsed_outputs[i].val)
         IN  IF ~sum.some THEN Err("overflow adding outputs")
             ELSE LegacyLoopCountsAll(parsed_outputs, target_address, i + 1, sum.val, TRUE)

\* the loop of sum_outputs_to_target_legacy, from output i on
RECURSIVE LegacyLoop(_, _, _, _, _)
LegacyLoop(parsed_outputs, target_address, i, total, matched) ==
    IF i > Len(parsed_outputs) THEN
        IF ~matched THEN Err("no outputs to target") ELSE Ok(total)
    ELSE IF parsed_outputs[i].addr = target_address THEN
        LET sum == checked_add(total, parsed_outputs[i].val)
        IN  IF ~sum.some THEN Err("overflow adding outputs")
            ELSE LegacyLoop(parsed_outputs, target_address, i + 1, sum.val, TRUE)
    ELSE LegacyLoop(parsed_outputs, target_address, i + 1, total, matched)

sum_outputs_to_target_legacy(parsed_outputs, target_address) ==
    LegacyLoop(parsed_outputs, target_address, 1, U64Zero, FALSE)

\* the loop of sum_outputs_to_target, were every output that decodes taken for a
\* match whatever its hash
RECURSIVE Bech32LoopAnyHash(_, _, _, _, _)
Bech32LoopAnyHash(parsed_outputs, target_hash, i, total, matched) ==
    IF i > Len(parsed_outputs) THEN
        IF ~matched THEN Err("no outputs to target") ELSE Ok(total)
    ELSE LET h == decode_bech32_pubkey_hash(parsed_outputs[i].addr)
         IN  IF IsOk(h) THEN
                 LET sum == checked_add(total, parsed_outputs[i].val)
                 IN  IF ~sum.some THEN Err("overflow adding outputs")
                     ELSE Bech32LoopAnyHash(parsed_outputs, target_hash, i + 1, sum.val, TRUE)
             ELSE Bech32LoopAnyHash(parsed_outputs, target_hash, i + 1, total, matched)

\* the loop of sum_outputs_to_target, from output i on
RECURSIVE Bech32Loop(_, _, _, _, _)
Bech32Loop(parsed_outputs, target_hash, i, total, matched) ==
    IF i > Len(parsed_outputs) THEN
        IF ~matched THEN Err("no outputs to target") ELSE Ok(total)
    ELSE LET h == decode_bech32_pubkey_hash(parsed_outputs[i].addr)
         IN  IF IsOk(h) /\ h.val = target_hash THEN
                 LET sum == checked_add(total, parsed_outputs[i].val)
                 IN  IF ~sum.some THEN Err("overflow adding outputs")
                     ELSE Bech32Loop(parsed_outputs, target_hash, i + 1, sum.val, TRUE)
             ELSE Bech32Loop(parsed_outputs, target_hash, i + 1, total, matched)

sum_outputs_to_target(parsed_outputs, target_address) ==
    IF IsPrefix(<<98, 99, 49>>, target_address) \/ IsPrefix(<<116, 98, 49>>, target_address)
    THEN LET target_hash == decode_bech32_pubkey_hash(target_address)
         IN  IF ~IsOk(target_hash) THEN Err(target_hash.err)
             ELSE Bech32Loop(parsed_outputs, target_hash.val, 1, U64Zero, FALSE)
    ELSE sum_outputs_to_target_legacy(parsed_outputs, target_address)

(***************************************************************************)
(* Transaction identifier, Merkle inclusion, block header                  *)
(***************************************************************************)
\* a transaction hash taken with the segwit marker and flag removed
compute_raw_tx_hash_without_marker(tx_hex) ==
    LET tx_bytes == hex_decode(tx_hex)
    IN  IF ~IsOk(tx_bytes) THEN Err("tx hex decode")
        ELSE LET b == tx_bytes.val
             IN  IF Len(b) >= 6 /\ b[5] = 0 /\ b[6] = 1
                 THEN Ok(sha256d(Slice(b, 0, 4) \o Slice(b, 6, Len(b))))
                 ELSE Ok(sha256d(b))

compute_raw_tx_hash_from_txhex(tx_hex) ==
    LET tx_bytes == hex_decode(tx_hex)
    IN  IF ~IsOk(tx_bytes) THEN Err("tx hex decode") ELSE Ok(sha256d(tx_bytes.val))

verify_txid(expected_txid_hex, tx_hex) ==
    LET expected_bytes == hex_decode(expected_txid_hex)
    IN  IF ~IsOk(expected_bytes) THEN Err("expected txid hex decode")
        ELSE IF Len(expected_bytes.val) # 32 THEN Err("expected txid len != 32")
        ELSE LET expected_arr == Reverse(expected_bytes.val)
                 computed == compute_raw_tx_hash_from_txhex(tx_hex)
             IN  IF ~IsOk(computed) THEN Err(computed.err)
                 ELSE Ok(computed.val = expected_arr)

\* hex_sibling_to_internal without the reversal of line 40
hex_sibling_not_reversed(s) ==
    LET bytes == hex_decode(s)
    IN  IF ~IsOk(bytes) THEN Err("hex decode sibling")
        ELSE IF Len(bytes.val) # 32 THEN Err("sibling len != 32")
        ELSE Ok(bytes.val)

hex_sibling_to_internal(s) ==
    LET bytes == hex_decode(s)
    IN  IF ~IsOk(bytes) THEN Err("hex decode sibling")
        ELSE IF Len(bytes.val) # 32 THEN Err("sibling len != 32")
        ELSE Ok(Reverse(bytes.val))

\* a fold that concatenates in the other order
MerkleLevelSwapped(leaf_internal, sibling, pos) ==
    IF pos % 2 = 0 THEN sha256d(sibling \o leaf_internal)
    ELSE sha256d(leaf_internal \o sibling)

\* one iteration of the loop of verify_merkle_inclusion: the next level's hash
MerkleLevel(leaf_internal, sibling, pos) ==
    IF pos % 2 = 0 THEN sha256d(leaf_internal \o sibling)
    ELSE sha256d(sibling \o leaf_internal)

\* a fold that stops one sibling early
RECURSIVE MerkleLoopSkipsLast(_, _, _, _)
MerkleLoopSkipsLast(leaf_internal, siblings, i, pos) ==
    IF i >= Len(siblings) THEN leaf_internal
    ELSE MerkleLoopSkipsLast(
            IF pos % 2 = 0 THEN sha256d(leaf_internal \o siblings[i])
            ELSE sha256d(siblings[i] \o leaf_internal),
            siblings, i + 1, pos \div 2)

RECURSIVE MerkleLoop(_, _, _, _)
MerkleLoop(leaf_internal, siblings, i, pos) ==
    IF i > Len(siblings) THEN leaf_internal
    ELSE MerkleLoop(MerkleLevel(leaf_internal, siblings[i], pos), siblings, i + 1,
                    pos \div 2)

\* an inclusion check that refuses a position beyond the leaves of a tree of
\* that depth
verify_merkle_inclusion_in_range(leaf_internal, merkle_siblings_internal, pos, merkle_root_internal) ==
    /\ pos < 2 ^ Len(merkle_siblings_internal)
    /\ MerkleLoop(leaf_internal, merkle_siblings_internal, 1, pos) = merkle_root_internal

verify_merkle_inclusion(leaf_internal, merkle_siblings_internal, pos, merkle_root_internal) ==
    MerkleLoop(leaf_internal, merkle_siblings_internal, 1, pos) = merkle_root_internal

verify_merkle_proof(tx_hash, merkle_siblings, pos, merkle_root) ==
    verify_merkle_inclusion(tx_hash, merkle_siblings, pos, merkle_root)

\* a header read that rejects only headers shorter than 80 bytes
block_header_accepts_longer(header_hex) ==
    LET header_bytes == hex_decode(header_hex)
    IN  IF ~IsOk(header_bytes) THEN Err("header hex decode")
        ELSE IF Len(header_bytes.val) < 80 THEN Err("block header must be 80 bytes")
        ELSE Ok([merkle_root |-> Slice(header_bytes.val, 36, 68),
                 block_hash |-> hex_encode(Reverse(sha256d(header_bytes.val)))])

\* a header read that encodes the block hash without reversing it
block_header_hash_unreversed(header_hex) ==
    LET header_bytes == hex_decode(header_hex)
    IN  IF ~IsOk(header_bytes) THEN Err("header hex decode")
        ELSE IF Len(header_bytes.val) # 80 THEN Err("block header must be 80 bytes")
        ELSE Ok([merkle_root |-> Slice(header_bytes.val, 36, 68),
                 block_hash |-> hex_encode(sha256d(header_bytes.val))])

block_header_merkle_root_and_block_hash(header_hex) ==
    LET header_bytes == hex_decode(header_hex)
    IN  IF ~IsOk(header_bytes) THEN Err("header hex decode")
        ELSE IF Len(header_bytes.val) # 80 THEN Err("block header must be 80 bytes")
        ELSE LET merkle_root_internal == Slice(header_bytes.val, 36, 68)
                 block_hash_internal == sha256d(header_bytes.val)
                 block_hash_disp == Reverse(block_hash_internal)
             IN  Ok([merkle_root |-> merkle_root_internal,
                     block_hash |-> hex_encode(block_hash_disp)])

(***************************************************************************)
(* State                                                                   *)
(***************************************************************************)
VARIABLES
    \* verify_tx_in_block_and_outputs: the six arguments
    tx_hex, expected_txid_hex, merkle_hex_siblings, pos, block_header_hex, target_address,
    \* its locals, its position, the stages it has evaluated and what it returned
    leaf_internal, siblings_internal, merkle_root_internal, block_hash_disp,
    pc, trace, result,
    \* parse_tx_outputs: argument, locals, position and what it returned
    p_tx_hex, tx_bytes, cursor, count, iter, outputs, p_pc, p_result,
    \* whether the build checks integer overflow (debug) or wraps (release)
    overflow_checks,
    \* one call of a library function on its own: which, arguments, returned, value
    fn, fn_args, fn_done, fn_ret,
    \* generate_bitcoin_proof: the request, its position, the zkVM input, the response,
    \* whether the local verification of the proof succeeded
    request, h_pc, stdin, response, proof_verified,
    \* the guest program: its position, the two checks, the committed public values
    g_pc, hash_valid, merkle_valid, public_values,
    \* invocations of verify_tx_in_block_and_outputs on several threads: the one that
    \* is executing, whose frame the variables above hold, and the frames of the others
    running, parked

verifyArgs == <<tx_hex, expected_txid_hex, merkle_hex_siblings, pos, block_header_hex,
                target_address>>

verifyLocals == <<leaf_internal, siblings_internal, merkle_root_internal, block_hash_disp>>

verifyVars == <<verifyArgs, verifyLocals, pc, trace, result>>

parseVars == <<p_tx_hex, tx_bytes, cursor, count, iter, outputs, p_pc, p_result>>

fnVars == <<fn, fn_args, fn_done, fn_ret>>

handlerVars == <<request, h_pc, stdin, response, proof_verified>>

guestVars == <<g_pc, hash_valid, merkle_valid, public_values>>

\* what neither verify_tx_in_block_and_outputs nor parse_tx_outputs touches
threadVars == <<running, parked>>

otherVars == <<overflow_checks, fnVars, handlerVars, guestVars, threadVars>>

vars == <<verifyVars, parseVars, otherVars>>

(***************************************************************************)
(* parse_tx_outputs, one action per straight-line piece of the function    *)
(***************************************************************************)
\* the loops `for _ in 0..count` are followed for at most this many iterations
MaxLoopIter == 6

ParseReturn(r) ==
    /\ p_pc' = "done"
    /\ p_result' = r

\* the start of parse_tx_outputs, were the marker byte alone taken for the sign of
\* the segwit encoding
ParseBeginMarkerOnly ==
    /\ p_pc = "start"
    /\ LET decoded == hex_decode(p_tx_hex)
           b == decoded.val
           is_segwit == Len(b) > 5 /\ b[5] = 0
           c == IF is_segwit THEN 6 ELSE 4
           v == parse_varint(Slice(b, c, Len(b)))
       IN  IF ~IsOk(decoded) THEN
               /\ ParseReturn(Err("tx hex decode"))
               /\ UNCHANGED <<tx_bytes, cursor, count, iter>>
           ELSE IF Len(b) < 4 THEN
               /\ ParseReturn(Err("tx too short for version"))
               /\ tx_bytes' = b
               /\ UNCHANGED <<cursor, count, iter>>
           ELSE IF ~IsOk(v) THEN
               /\ ParseReturn(Err(v.err))
               /\ tx_bytes' = b
               /\ cursor' = c
               /\ UNCHANGED <<count, iter>>
           ELSE
               /\ tx_bytes' = b
               /\ cursor' = c + v.val.len
               /\ count' = v.val.value
               /\ iter' = 0
               /\ p_pc' = "inputs"
               /\ UNCHANGED p_result
    /\ UNCHANGED <<p_tx_hex, outputs, verifyVars, otherVars>>

\* lines 176-196: hex decode, version, segwit marker, input count
ParseBegin ==
    /\ p_pc = "start"
    /\ LET decoded == hex_decode(p_tx_hex)
           b == decoded.val
           is_segwit == Len(b) > 4 /\ b[5] = 0 /\ Len(b) > 5 /\ b[6] = 1
           c == IF is_segwit THEN 6 ELSE 4
           v == parse_varint(Slice(b, c, Len(b)))
       IN  IF ~IsOk(decoded) THEN
               /\ ParseReturn(Err("tx hex decode"))
               /\ UNCHANGED <<tx_bytes, cursor, count, iter>>
           ELSE IF Len(b) < 4 THEN
               /\ ParseReturn(Err("tx too short for version"))
               /\ tx_bytes' = b
               /\ UNCHANGED <<cursor, count, iter>>
           ELSE IF ~IsOk(v) THEN
               /\ ParseReturn(Err(v.err))
               /\ tx_bytes' = b
               /\ cursor' = c
               /\ UNCHANGED <<count, iter>>
           ELSE
               /\ tx_bytes' = b
               /\ cursor' = c + v.val.len
               /\ count' = v.val.value
               /\ iter' = 0
               /\ p_pc' = "inputs"
               /\ UNCHANGED p_result
    /\ UNCHANGED <<p_tx_hex, outputs, verifyVars, otherVars>>

\* lines 199-215: one iteration of the loop that skips the inputs
ParseInput ==
    /\ p_pc = "inputs"
    /\ U64GtInt(count, iter)
    /\ iter < MaxLoopIter
    /\ LET len == Len(tx_bytes)
           c1 == cursor + 36
           v == parse_varint(Slice(tx_bytes, c1, len))
           c2 == c1 + v.val.len
           a1 == U64Add(U64OfInt(c2), v.val.value)
           a2 == U64Add(a1.sum, U64OfInt(4))
       IN  IF c1 > len THEN
               ParseReturn(Err("tx too short for input")) /\ UNCHANGED <<cursor, iter>>
           ELSE IF ~IsOk(v) THEN
               ParseReturn(Err(v.err)) /\ cursor' = c1 /\ UNCHANGED iter
           ELSE IF overflow_checks /\ (a1.carry # 0 \/ a2.carry # 0) THEN
               ParseReturn(Panic("attempt to add with overflow"))
               /\ cursor' = c2 /\ UNCHANGED iter
           ELSE IF U64GtInt(a2.sum, len) THEN
               ParseReturn(Err("tx too short for input script"))
               /\ cursor' = c2 /\ UNCHANGED iter
           ELSE
               /\ cursor' = U64ToInt(a2.sum)
               /\ iter' = iter + 1
               /\ UNCHANGED <<p_pc, p_result>>
    /\ UNCHANGED <<p_tx_hex, tx_bytes, count, outputs, verifyVars, otherVars>>

\* lines 218-221: output count
ParseOutputCount ==
    /\ p_pc = "inputs"
    /\ ~U64GtInt(count, iter)
    /\ LET v == parse_varint(Slice(tx_bytes, cursor, Len(tx_bytes)))
       IN  IF ~IsOk(v) THEN
               ParseReturn(Err(v.err)) /\ UNCHANGED <<cursor, count, iter, outputs>>
           ELSE
               /\ cursor' = cursor + v.val.len
               /\ count' = v.val.value
               /\ iter' = 0
               /\ outputs' = <<>>
               /\ p_pc' = "outputs"
               /\ UNCHANGED p_result
    /\ UNCHANGED <<p_tx_hex, tx_bytes, verifyVars, otherVars>>

\* the loop that reads the outputs, were an unrecognised script pushed with an
\* absent address in the place of being dropped
ParseOutputRetainsAll ==
    /\ p_pc = "outputs"
    /\ U64GtInt(count, iter)
    /\ iter < MaxLoopIter
    /\ LET len == Len(tx_bytes)
           c1 == cursor + 8
           value == u64_from_le_bytes(Slice(tx_bytes, cursor, c1))
           v == parse_varint(Slice(tx_bytes, c1, len))
           c2 == c1 + v.val.len
           a == U64Add(U64OfInt(c2), v.val.value)
           end == U64ToInt(a.sum)
           script == Slice(tx_bytes, c2, end)
           p2pkh == extract_p2pkh_address(script)
           p2wpkh == extract_p2wpkh_address(script)
       IN  IF c1 > len THEN
               ParseReturn(Err("tx too short for output value"))
               /\ UNCHANGED <<cursor, iter, outputs>>
           ELSE IF ~IsOk(v) THEN
               ParseReturn(Err(v.err)) /\ cursor' = c1 /\ UNCHANGED <<iter, outputs>>
           ELSE IF overflow_checks /\ a.carry # 0 THEN
               ParseReturn(Panic("attempt to add with overflow"))
               /\ cursor' = c2 /\ UNCHANGED <<iter, outputs>>
           ELSE IF U64GtInt(a.sum, len) THEN
               ParseReturn(Err("tx too short for output script"))
               /\ cursor' = c2 /\ UNCHANGED <<iter, outputs>>
           ELSE IF end < c2 THEN
               ParseReturn(Panic("slice index starts after its end"))
               /\ cursor' = c2 /\ UNCHANGED <<iter, outputs>>
           ELSE
               /\ cursor' = end
               /\ iter' = iter + 1
               /\ outputs' =
                    IF IsOk(p2pkh) THEN Append(outputs, [addr |-> p2pkh.val, val |-> value])
                    ELSE IF IsOk(p2wpkh)
                        THEN Append(outputs, [addr |-> p2wpkh.val, val |-> value])
                    ELSE Append(outputs, [addr |-> <<>>, val |-> value])
               /\ UNCHANGED <<p_pc, p_result>>
    /\ UNCHANGED <<p_tx_hex, tx_bytes, count, verifyVars, otherVars>>

\* lines 224-250: one iteration of the loop that reads the outputs
ParseOutput ==
    /\ p_pc = "outputs"
    /\ U64GtInt(count, iter)
    /\ iter < MaxLoopIter
    /\ LET len == Len(tx_bytes)
           c1 == cursor + 8
           value == u64_from_le_bytes(Slice(tx_bytes, cursor, c1))
           v == parse_varint(Slice(tx_bytes, c1, len))
           c2 == c1 + v.val.len
           a == U64Add(U64OfInt(c2), v.val.value)
           end == U64ToInt(a.sum)
           script == Slice(tx_bytes, c2, end)
           p2pkh == extract_p2pkh_address(script)
           p2wpkh == extract_p2wpkh_address(script)
       IN  IF c1 > len THEN
               ParseReturn(Err("tx too short for output value"))
               /\ UNCHANGED <<cursor, iter, outputs>>
           ELSE IF ~IsOk(v) THEN
               ParseReturn(Err(v.err)) /\ cursor' = c1 /\ UNCHANGED <<iter, outputs>>
           ELSE IF overflow_checks /\ a.carry # 0 THEN
               ParseReturn(Panic("attempt to add with overflow"))
               /\ cursor' = c2 /\ UNCHANGED <<iter, outputs>>
           ELSE IF U64GtInt(a.sum, len) THEN
               ParseReturn(Err("tx too short for output script"))
               /\ cursor' = c2 /\ UNCHANGED <<iter, outputs>>
           ELSE IF end < c2 THEN
               ParseReturn(Panic("slice index starts after its end"))
               /\ cursor' = c2 /\ UNCHANGED <<iter, outputs>>
           ELSE
               /\ cursor' = end
               /\ iter' = iter + 1
               /\ outputs' =
                    IF IsOk(p2pkh) THEN Append(outputs, [addr |-> p2pkh.val, val |-> value])
                    ELSE IF IsOk(p2wpkh)
                        THEN Append(outputs, [addr |-> p2wpkh.val, val |-> value])
                    ELSE outputs
               /\ UNCHANGED <<p_pc, p_result>>
    /\ UNCHANGED <<p_tx_hex, tx_bytes, count, verifyVars, otherVars>>

\* the end of parse_tx_outputs, were anything but a 4-byte locktime after the last
\* output an error
ParseEndWantsLocktime ==
    /\ p_pc = "outputs"
    /\ ~U64GtInt(count, iter)
    /\ ParseReturn(IF Len(tx_bytes) - cursor = 4 THEN Ok(outputs)
                   ELSE Err("unexpected bytes after the outputs"))
    /\ UNCHANGED <<p_tx_hex, tx_bytes, cursor, count, iter, outputs, verifyVars,
                   otherVars>>

\* line 252
ParseEnd ==
    /\ p_pc = "outputs"
    /\ ~U64GtInt(count, iter)
    /\ ParseReturn(Ok(outputs))
    /\ UNCHANGED <<p_tx_hex, tx_bytes, cursor, count, iter, outputs, verifyVars,
                   otherVars>>

parse_tx_outputs == ParseBegin \/ ParseInput \/ ParseOutputCount \/ ParseOutput \/ ParseEnd

(***************************************************************************)
(* verify_tx_in_block_and_outputs, one action per stage                    *)
(***************************************************************************)
NoResult == [kind |-> "None", val |-> <<>>, err |-> ""]

VerifyReturn(r) ==
    /\ pc' = "done"
    /\ result' = r

\* lines 355-361: 1) txid correctness, 2) leaf internal
TxidStage ==
    /\ pc = "txid"
    /\ trace' = Append(trace, "txid")
    /\ LET ok == verify_txid(expected_txid_hex, tx_hex)
           leaf == compute_raw_tx_hash_from_txhex(tx_hex)
       IN  IF ~IsOk(ok) THEN VerifyReturn(Err(ok.err)) /\ UNCHANGED leaf_internal
           ELSE IF ~ok.val THEN VerifyReturn(Err("txid mismatch")) /\ UNCHANGED leaf_internal
           ELSE IF ~IsOk(leaf) THEN VerifyReturn(Err(leaf.err)) /\ UNCHANGED leaf_internal
           ELSE /\ leaf_internal' = leaf.val
                /\ pc' = "siblings"
                /\ UNCHANGED result
    /\ UNCHANGED <<verifyArgs, siblings_internal, merkle_root_internal, block_hash_disp,
                   parseVars, otherVars>>

\* lines 363-367: 3) convert siblings to internal; the first failure is returned
SiblingsStage ==
    /\ pc = "siblings"
    /\ trace' = Append(trace, "siblings")
    /\ LET conv == [i \in 1..Len(merkle_hex_siblings) |->
                        hex_sibling_to_internal(merkle_hex_siblings[i])]
           bad == {i \in 1..Len(conv) : ~IsOk(conv[i])}
           first == CHOOSE i \in bad : \A j \in bad : i <= j
       IN  IF bad # {} THEN VerifyReturn(Err(conv[first].err)) /\ UNCHANGED siblings_internal
           ELSE /\ siblings_internal' = [i \in 1..Len(conv) |-> conv[i].val]
                /\ pc' = "header"
                /\ UNCHANGED result
    /\ UNCHANGED <<verifyArgs, leaf_internal, merkle_root_internal, block_hash_disp,
                   parseVars, otherVars>>

\* a header stage that goes on to the Merkle stage when the header read fails
HeaderStageGoesOn ==
    /\ pc = "header"
    /\ trace' = Append(trace, "header")
    /\ LET h == block_header_merkle_root_and_block_hash(block_header_hex)
       IN  /\ merkle_root_internal' = IF IsOk(h) THEN h.val.merkle_root ELSE <<>>
           /\ block_hash_disp' = IF IsOk(h) THEN h.val.block_hash ELSE <<>>
           /\ pc' = "merkle"
           /\ UNCHANGED result
    /\ UNCHANGED <<verifyArgs, leaf_internal, siblings_internal, parseVars, otherVars>>

\* lines 369-371: 4) extract merkle_root and block hash
HeaderStage ==
    /\ pc = "header"
    /\ trace' = Append(trace, "header")
    /\ LET h == block_header_merkle_root_and_block_hash(block_header_hex)
       IN  IF ~IsOk(h) THEN
               VerifyReturn(Err(h.err)) /\ UNCHANGED <<merkle_root_internal, block_hash_disp>>
           ELSE /\ merkle_root_internal' = h.val.merkle_root
                /\ block_hash_disp' = h.val.block_hash
                /\ pc' = "merkle"
                /\ UNCHANGED result
    /\ UNCHANGED <<verifyArgs, leaf_internal, siblings_internal, parseVars, otherVars>>

\* lines 373-382: 5) merkle inclusion
MerkleStage ==
    /\ pc = "merkle"
    /\ trace' = Append(trace, "merkle")
    /\ LET merkle_ok == verify_merkle_inclusion(leaf_internal, siblings_internal, pos,
                                                merkle_root_internal)
       IN  IF ~merkle_ok THEN VerifyReturn(Err("merkle inclusion failed"))
           ELSE pc' = "parse" /\ UNCHANGED result
    /\ UNCHANGED <<verifyArgs, verifyLocals, parseVars, otherVars>>

\* line 384: 6) the call of parse_tx_outputs
ParseStage ==
    /\ pc = "parse"
    /\ trace' = Append(trace, "parse")
    /\ p_tx_hex' = tx_hex
    /\ p_pc' = "start"
    /\ pc' = "parsing"
    /\ UNCHANGED <<verifyArgs, verifyLocals, result, tx_bytes, cursor, count, iter, outputs,
                   p_result, otherVars>>

\* line 384: parse_tx_outputs failed; `?` returns its error, a panic unwinds
ParseFailed ==
    /\ pc = "parsing"
    /\ p_pc = "done"
    /\ ~IsOk(p_result)
    /\ VerifyReturn(p_result)
    /\ UNCHANGED <<verifyArgs, verifyLocals, trace, parseVars, otherVars>>

\* lines 386-390: 7) sum outputs to target, success
SumStage ==
    /\ pc = "parsing"
    /\ p_pc = "done"
    /\ IsOk(p_result)
    /\ trace' = Append(trace, "sum")
    /\ LET total == sum_outputs_to_target(p_result.val, target_address)
       IN  IF ~IsOk(total) THEN VerifyReturn(Err(total.err))
           ELSE VerifyReturn(Ok([block_hash |-> block_hash_disp, total |-> total.val]))
    /\ UNCHANGED <<verifyArgs, verifyLocals, parseVars, otherVars>>

verify_tx_in_block_and_outputs ==
    \/ TxidStage
    \/ SiblingsStage
    \/ HeaderStage
    \/ MerkleStage
    \/ ParseStage
    \/ ParseFailed
    \/ SumStage

(***************************************************************************)
(* Inputs: transactions, hashes, headers and addresses the runs start from *)
(***************************************************************************)
HashA == [i \in 1..20 |-> i]

HashB == [i \in 1..20 |-> 100 + i]

ScriptP2PKH(h) == <<118, 169, 20>> \o h \o <<136, 172>>

ScriptP2WPKH(h) == <<0, 20>> \o h

\* OP_RETURN and a 2-byte push: no pay-to-hash pattern
ScriptOther == <<106, 2, 7, 7>>

\* a small amount as the 8 little-endian bytes of an output value
ValueBytes(n) == <<n % 256, n \div 256, 0, 0, 0, 0, 0, 0>>

ValueMax == Repeat(255, 8)

TxOut(value, script) == value \o <<Len(script)>> \o script

TxIn(script) == Repeat(171, 32) \o <<1, 0, 0, 0>> \o <<Len(script)>> \o script \o Repeat(255, 4)

MkTx(ins, outs) ==
    <<1, 0, 0, 0>> \o <<Len(ins)>> \o Flatten(ins) \o <<Len(outs)>> \o Flatten(outs)
        \o <<0, 0, 0, 0>>

\* pays 5000 and 11 to A (P2PKH), 700 to B (P2WPKH), 3 to an unrecognised script
TxPay ==
    MkTx(<<TxIn(<<81>>)>>,
         <<TxOut(ValueBytes(5000), ScriptP2PKH(HashA)),
           TxOut(ValueBytes(700), ScriptP2WPKH(HashB)),
           TxOut(ValueBytes(11), ScriptP2PKH(HashA)),
           TxOut(ValueBytes(3), ScriptOther)>>)

\* two outputs to A whose values sum to 2^64
TxOverflow ==
    MkTx(<<TxIn(<<>>)>>,
         <<TxOut(ValueMax, ScriptP2PKH(HashA)), TxOut(ValueBytes(1), ScriptP2PKH(HashA))>>)

\* a zero-value payment to A and nothing else
TxZero == MkTx(<<TxIn(<<>>)>>, <<TxOut(ValueBytes(0), ScriptP2PKH(HashA))>>)

\* one output whose script length varint declares 2^64-1 bytes
TxHugeOutputScript ==
    <<1, 0, 0, 0>> \o <<1>> \o TxIn(<<>>) \o <<1>> \o ValueBytes(9) \o <<255>> \o Repeat(255, 8)
        \o <<0, 0, 0, 0>>

\* TxPay cut inside its second output
TxCut == Slice(TxPay, 0, 90)

\* "zz": not hex
NotHex == <<122, 122>>

AddrA == extract_p2pkh_address(ScriptP2PKH(HashA)).val

AddrB == extract_p2wpkh_address(ScriptP2WPKH(HashB)).val

\* the address of B with the human-readable part "tb"
AddrBTestnet ==
    bech32_encode(<<116, 98>>, <<0>> \o convert_bits(HashB, 8, 5, TRUE).val, "Bech32")

\* "1InvalidAddressThatDoesNotExist123456789"
AddrAbsent == <<49, 73, 110, 118, 97, 108, 105, 100, 65, 100, 100, 114, 101, 115, 115, 84, 104, 97, 116, 68, 111, 101, 115, 78, 111, 116, 69, 120, 105, 115, 116, 49, 50, 51, 52, 53, 54, 55, 56, 57>>

\* "bc1qinvalid": the bc1 prefix, not a bech32 string
AddrBadBech32 == <<98, 99, 49, 113, 105, 110, 118, 97, 108, 105, 100>>

\* the display form of a 32-byte hash: reversed, lowercase hex
ToDisplay(internal) == hex_encode(Reverse(internal))

SiblingBytes(n) == [i \in 1..32 |-> (n * 37 + i * 5) % 256]

\* the Merkle root of the specification's section 4.7, by the level's bit of the position
RECURSIVE RefFold(_, _, _)
RefFold(leaf, siblings, position) ==
    IF siblings = <<>> THEN leaf
    ELSE LET n == Len(siblings)
             below == RefFold(leaf, SubSeq(siblings, 1, n - 1), position)
             bit == (position \div (2 ^ (n - 1))) % 2
         IN  IF bit = 0 THEN sha256d(below \o siblings[n]) ELSE sha256d(siblings[n] \o below)

MkHeader(root) ==
    <<3, 0, 0, 0>> \o Repeat(88, 32) \o root \o <<154, 224, 147, 85>> \o <<142, 65, 22, 24>>
        \o <<193, 66, 64, 223>>

\* bounds of the runs of verify_tx_in_block_and_outputs
MaxSiblings == 2

MaxPos == 2

\* a segwit transaction: marker and flag after the version, one witness item
TxSegwit ==
    <<2, 0, 0, 0, 0, 1>> \o <<1>> \o TxIn(<<>>) \o <<1>>
        \o TxOut(ValueBytes(900), ScriptP2WPKH(HashB)) \o <<1, 1, 7>> \o <<0, 0, 0, 0>>

\* TxSegwit in the serialization without marker, flag and witness, the one its
\* transaction id is defined over
TxSegwitStripped ==
    <<2, 0, 0, 0>> \o <<1>> \o TxIn(<<>>) \o <<1>>
        \o TxOut(ValueBytes(900), ScriptP2WPKH(HashB)) \o <<0, 0, 0, 0>>

StrippedOf(tx) == IF tx = TxSegwit THEN TxSegwitStripped ELSE tx

VerifyTxs == {TxPay, TxOverflow, TxZero, TxHugeOutputScript, TxCut}

VerifyTargets == {AddrA, AddrB, AddrBTestnet, AddrAbsent, AddrBadBech32}

SiblingLists ==
    {[i \in 1..n |-> ToDisplay(SiblingBytes(i))] : n \in 0..MaxSiblings}
        \cup {<<ToDisplay(SiblingBytes(1)), hex_encode(Repeat(5, 31))>>, <<NotHex>>}

\* the siblings in internal order when all of them are 32-byte hex, else none
InternalOrEmpty(sibs) ==
    IF \A i \in 1..Len(sibs) : IsOk(hex_decode(sibs[i])) /\ Len(hex_decode(sibs[i]).val) = 32
    THEN [i \in 1..Len(sibs) |-> Reverse(hex_decode(sibs[i]).val)]
    ELSE <<>>

TxidChoices(tx) ==
    {ToDisplay(sha256d(tx)), hex_encode(sha256d(tx)), hex_encode(Repeat(0, 32)),
     hex_encode(Repeat(0, 31)), NotHex, ToDisplay(sha256d(StrippedOf(tx)))}

GoodRoot(tx, sibs, p) == RefFold(sha256d(tx), InternalOrEmpty(sibs), p)

HeaderChoices(tx, sibs, p) ==
    {hex_encode(MkHeader(GoodRoot(tx, sibs, p))),
     hex_encode(MkHeader(Reverse(GoodRoot(tx, sibs, p)))),
     hex_encode(MkHeader(GoodRoot(tx, sibs, p + 1))),
     hex_encode(Slice(MkHeader(GoodRoot(tx, sibs, p)), 0, 79)),
     hex_encode(MkHeader(GoodRoot(tx, sibs, p)) \o <<0>>),
     NotHex}

Call(tx_h, txid, sibs, p, header, target) ==
    [tx_hex |-> tx_h, expected_txid_hex |-> txid, merkle_hex_siblings |-> sibs, pos |-> p,
     block_header_hex |-> header, target_address |-> target]

\* calls that differ in the transaction and in the expected txid
TxidCalls ==
    {Call(tx_h, txid, <<>>, 0, hex_encode(MkHeader(sha256d(tx))), AddrA) :
        <<tx, tx_h, txid>> \in
            UNION {{tx} \X {hex_encode(tx), NotHex} \X TxidChoices(tx) :
                        tx \in VerifyTxs \cup {TxSegwit}}}

\* calls with the right txid that differ in the proof and in the header
ProofCalls ==
    UNION {{Call(hex_encode(TxPay), ToDisplay(sha256d(TxPay)), sibs, p, header, AddrA) :
                header \in HeaderChoices(TxPay, sibs, p)} :
            <<sibs, p>> \in SiblingLists \X (0..MaxPos)}

\* calls with a valid proof that differ in the transaction and in the target
PaymentCalls ==
    {Call(hex_encode(tx), ToDisplay(sha256d(tx)), sibs, p,
          hex_encode(MkHeader(GoodRoot(tx, sibs, p))), target) :
        <<tx, sibs, p, target>> \in
            VerifyTxs \X {l \in SiblingLists : InternalOrEmpty(l) # <<>> \/ l = <<>>}
                \X (0..MaxPos) \X VerifyTargets}

\* calls on a segwit-encoded transaction with a valid proof of no level and of two
SegwitCalls ==
    {Call(hex_encode(TxSegwit), ToDisplay(sha256d(TxSegwit)), sibs, p,
          hex_encode(MkHeader(GoodRoot(TxSegwit, sibs, p))), AddrB) :
        <<sibs, p>> \in {[i \in 1..n |-> ToDisplay(SiblingBytes(i))] : n \in {0, 2}}
                            \X {0, 1}}

VerifyCalls == TxidCalls \cup ProofCalls \cup PaymentCalls \cup SegwitCalls

ParseIdle ==
    /\ p_tx_hex = <<>>
    /\ tx_bytes = <<>>
    /\ cursor = 0
    /\ count = U64Zero
    /\ iter = 0
    /\ outputs = <<>>
    /\ p_pc = "idle"
    /\ p_result = NoResult

VerifyLocalsInit ==
    /\ leaf_internal = <<>>
    /\ siblings_internal = <<>>
    /\ merkle_root_internal = <<>>
    /\ block_hash_disp = <<>>
    /\ trace = <<>>
    /\ result = NoResult

VerifyIdle ==
    /\ tx_hex = <<>>
    /\ expected_txid_hex = <<>>
    /\ merkle_hex_siblings = <<>>
    /\ pos = 0
    /\ block_header_hex = <<>>
    /\ target_address = <<>>
    /\ pc = "idle"
    /\ VerifyLocalsInit

FnIdle ==
    /\ fn = "none"
    /\ fn_args = <<>>
    /\ fn_done = FALSE
    /\ fn_ret = NoResult

HandlerIdle ==
    /\ request = <<>>
    /\ h_pc = "idle"
    /\ stdin = <<>>
    /\ response = <<>>
    /\ proof_verified = FALSE

\* one invocation, nothing else on another thread
OneInvocation ==
    /\ running = 1
    /\ parked = <<>>

GuestIdle ==
    /\ g_pc = "idle"
    /\ hash_valid = FALSE
    /\ merkle_valid = FALSE
    /\ public_values = <<>>

Init ==
    /\ \E c \in VerifyCalls :
        /\ tx_hex = c.tx_hex
        /\ expected_txid_hex = c.expected_txid_hex
        /\ merkle_hex_siblings = c.merkle_hex_siblings
        /\ pos = c.pos
        /\ block_header_hex = c.block_header_hex
        /\ target_address = c.target_address
    /\ overflow_checks \in BOOLEAN
    /\ pc = "txid"
    /\ VerifyLocalsInit
    /\ ParseIdle
    /\ FnIdle
    /\ HandlerIdle
    /\ GuestIdle
    /\ OneInvocation

Next == verify_tx_in_block_and_outputs \/ parse_tx_outputs

Spec == Init /\ [][Next]_vars

(***************************************************************************)
(* Several invocations of verify_tx_in_block_and_outputs on threads that   *)
(* are scheduled one step at a time                                        *)
(***************************************************************************)
\* the frame of the invocation that is executing: the arguments and every local of
\* verify_tx_in_block_and_outputs and of the parse_tx_outputs call it makes
CurrentFrame ==
    [tx_hex |-> tx_hex,
     expected_txid_hex |-> expected_txid_hex,
     merkle_hex_siblings |-> merkle_hex_siblings,
     pos |-> pos,
     block_header_hex |-> block_header_hex,
     target_address |-> target_address,
     leaf_internal |-> leaf_internal,
     siblings_internal |-> siblings_internal,
     merkle_root_internal |-> merkle_root_internal,
     block_hash_disp |-> block_hash_disp,
     pc |-> pc,
     trace |-> trace,
     result |-> result,
     p_tx_hex |-> p_tx_hex,
     tx_bytes |-> tx_bytes,
     cursor |-> cursor,
     count |-> count,
     iter |-> iter,
     outputs |-> outputs,
     p_pc |-> p_pc,
     p_result |-> p_result]

\* the frame of an invocation that has not taken a step
FreshFrame(c) ==
    [tx_hex |-> c.tx_hex, expected_txid_hex |-> c.expected_txid_hex,
     merkle_hex_siblings |-> c.merkle_hex_siblings, pos |-> c.pos,
     block_header_hex |-> c.block_header_hex, target_address |-> c.target_address,
     leaf_internal |-> <<>>, siblings_internal |-> <<>>, merkle_root_internal |-> <<>>,
     block_hash_disp |-> <<>>, pc |-> "txid", trace |-> <<>>, result |-> NoResult,
     p_tx_hex |-> <<>>, tx_bytes |-> <<>>, cursor |-> 0, count |-> U64Zero, iter |-> 0,
     outputs |-> <<>>, p_pc |-> "idle", p_result |-> NoResult]

\* the place of the executing invocation's frame among the parked ones
NoFrame == [pc |-> "running"]

\* the frame of invocation t
FrameOf(t) == IF running = t THEN CurrentFrame ELSE parked[t]

\* invocation 1 runs alone, from its call to its return; after it, invocations 2
\* and 3 take their steps in any order
MayRun(t) ==
    /\ t \in {2, 3}
    /\ t # running
    /\ running = 1 => pc = "done"
    /\ parked[t].pc # "done"

\* a scheduler under which the parser's cursor, loop counter and output list were
\* one set of cells used by every invocation
SwitchSharingParserLocals ==
    \E t \in 1..3 :
        /\ MayRun(t)
        /\ running' = t
        /\ parked' = [parked EXCEPT ![running] = CurrentFrame, ![t] = NoFrame]
        /\ tx_hex' = parked[t].tx_hex
        /\ expected_txid_hex' = parked[t].expected_txid_hex
        /\ merkle_hex_siblings' = parked[t].merkle_hex_siblings
        /\ pos' = parked[t].pos
        /\ block_header_hex' = parked[t].block_header_hex
        /\ target_address' = parked[t].target_address
        /\ leaf_internal' = parked[t].leaf_internal
        /\ siblings_internal' = parked[t].siblings_internal
        /\ merkle_root_internal' = parked[t].merkle_root_internal
        /\ block_hash_disp' = parked[t].block_hash_disp
        /\ pc' = parked[t].pc
        /\ trace' = parked[t].trace
        /\ result' = parked[t].result
        /\ p_tx_hex' = parked[t].p_tx_hex
        /\ tx_bytes' = parked[t].tx_bytes
        /\ count' = parked[t].count
        /\ p_pc' = parked[t].p_pc
        /\ p_result' = parked[t].p_result
        /\ UNCHANGED <<cursor, iter, outputs, overflow_checks, fnVars, handlerVars,
                       guestVars>>

\* the scheduler takes the executing invocation off its thread and lets another
\* go on: each invocation has its arguments and locals in a frame of its own
\* (lib.rs lines 347-391 and 175-253 read and write no static and no shared cell)
Switch ==
    \E t \in 1..3 :
        /\ MayRun(t)
        /\ running' = t
        /\ parked' = [parked EXCEPT ![running] = CurrentFrame, ![t] = NoFrame]
        /\ tx_hex' = parked[t].tx_hex
        /\ expected_txid_hex' = parked[t].expected_txid_hex
        /\ merkle_hex_siblings' = parked[t].merkle_hex_siblings
        /\ pos' = parked[t].pos
        /\ block_header_hex' = parked[t].block_header_hex
        /\ target_address' = parked[t].target_address
        /\ leaf_internal' = parked[t].leaf_internal
        /\ siblings_internal' = parked[t].siblings_internal
        /\ merkle_root_internal' = parked[t].merkle_root_internal
        /\ block_hash_disp' = parked[t].block_hash_disp
        /\ pc' = parked[t].pc
        /\ trace' = parked[t].trace
        /\ result' = parked[t].result
        /\ p_tx_hex' = parked[t].p_tx_hex
        /\ tx_bytes' = parked[t].tx_bytes
        /\ cursor' = parked[t].cursor
        /\ count' = parked[t].count
        /\ iter' = parked[t].iter
        /\ outputs' = parked[t].outputs
        /\ p_pc' = parked[t].p_pc
        /\ p_result' = parked[t].p_result
        /\ UNCHANGED <<overflow_checks, fnVars, handlerVars, guestVars>>

\* the calls that run concurrently: one that succeeds over a one-level proof, a
\* segwit one that succeeds, a txid in the wrong byte order, a root that the proof
\* does not reach, a truncated transaction, a script length of 2^64-1
ConcurrentCalls ==
    {Call(hex_encode(TxPay), ToDisplay(sha256d(TxPay)), <<ToDisplay(SiblingBytes(1))>>, 1,
          hex_encode(MkHeader(GoodRoot(TxPay, <<ToDisplay(SiblingBytes(1))>>, 1))), AddrA),
     Call(hex_encode(TxSegwit), ToDisplay(sha256d(TxSegwit)), <<>>, 0,
          hex_encode(MkHeader(sha256d(TxSegwit))), AddrB),
     Call(hex_encode(TxPay), hex_encode(sha256d(TxPay)), <<>>, 0,
          hex_encode(MkHeader(sha256d(TxPay))), AddrA),
     Call(hex_encode(TxZero), ToDisplay(sha256d(TxZero)), <<ToDisplay(SiblingBytes(2))>>, 0,
          hex_encode(MkHeader(GoodRoot(TxZero, <<ToDisplay(SiblingBytes(2))>>, 1))), AddrA),
     Call(hex_encode(TxCut), ToDisplay(sha256d(TxCut)), <<>>, 0,
          hex_encode(MkHeader(sha256d(TxCut))), AddrA),
     Call(hex_encode(TxHugeOutputScript), ToDisplay(sha256d(TxHugeOutputScript)), <<>>, 2,
          hex_encode(MkHeader(sha256d(TxHugeOutputScript))), AddrB)}

\* the variables hold the frame f
Holds(f) ==
    /\ tx_hex = f.tx_hex
    /\ expected_txid_hex = f.expected_txid_hex
    /\ merkle_hex_siblings = f.merkle_hex_siblings
    /\ pos = f.pos
    /\ block_header_hex = f.block_header_hex
    /\ target_address = f.target_address
    /\ leaf_internal = f.leaf_internal
    /\ siblings_internal = f.siblings_internal
    /\ merkle_root_internal = f.merkle_root_internal
    /\ block_hash_disp = f.block_hash_disp
    /\ pc = f.pc
    /\ trace = f.trace
    /\ result = f.result
    /\ p_tx_hex = f.p_tx_hex
    /\ tx_bytes = f.tx_bytes
    /\ cursor = f.cursor
    /\ count = f.count
    /\ iter = f.iter
    /\ outputs = f.outputs
    /\ p_pc = f.p_pc
    /\ p_result = f.p_result

InitConcurrent ==
    /\ \E c, d \in ConcurrentCalls :
        /\ Holds(FreshFrame(c))
        /\ parked = <<NoFrame, FreshFrame(c), FreshFrame(d)>>
    /\ running = 1
    /\ overflow_checks \in BOOLEAN
    /\ FnIdle
    /\ HandlerIdle
    /\ GuestIdle

NextConcurrent == verify_tx_in_block_and_outputs \/ parse_tx_outputs \/ Switch

SpecConcurrent == InitConcurrent /\ [][NextConcurrent]_vars

TxHugeInputScript ==
    <<1, 0, 0, 0>> \o <<1>> \o Repeat(171, 32) \o <<1, 0, 0, 0>>
        \o <<255, 252, 255, 255, 255, 255, 255, 255, 255>>
        \o <<1>> \o TxOut(ValueBytes(0), ScriptP2PKH(HashA)) \o <<0, 0, 0, 0>>

\* an input count of 2^64-1 and one input whose script length is 2^64-49: the
\* sum of the 45 bytes read, the script length and 4 is 2^64
TxInputLoop ==
    <<1, 0, 0, 0>> \o Repeat(255, 9) \o Repeat(171, 36)
        \o <<255, 207, 255, 255, 255, 255, 255, 255, 255>>

\* an output count of 252 over a buffer that holds one output
TxManyOutputs ==
    <<1, 0, 0, 0>> \o <<0>> \o <<252>> \o TxOut(ValueBytes(1), ScriptOther)

\* two inputs; the outputs pay B by P2WPKH, A by P2PKH and A by P2WPKH, nothing else
TxMixed ==
    MkTx(<<TxIn(<<81>>), TxIn(<<>>)>>,
         <<TxOut(ValueBytes(65535), ScriptP2WPKH(HashB)),
           TxOut(<<0, 0, 0, 0, 0, 0, 0, 128>>, ScriptP2PKH(HashA)),
           TxOut(ValueBytes(256), ScriptP2WPKH(HashA))>>)

\* the script s changed to x at byte i (from 1)
ScriptWith(s, i, x) == [j \in 1..Len(s) |-> IF j = i THEN x ELSE s[j]]

\* scripts at and around the two pay-to-hash patterns: the patterns themselves; each
\* fixed byte of a pattern changed; a byte less and a byte more; P2SH, P2WSH, a
\* version-1 witness program; the empty script
ClassifyScripts ==
    {ScriptP2PKH(HashB), ScriptP2WPKH(HashA), <<>>}
        \cup {ScriptWith(ScriptP2PKH(HashB), i, 135) : i \in {1, 2, 3, 24, 25}}
        \cup {ScriptWith(ScriptP2WPKH(HashA), i, 81) : i \in {1, 2}}
        \cup {Slice(ScriptP2PKH(HashB), 0, 24), ScriptP2PKH(HashB) \o <<172>>,
              Slice(ScriptP2WPKH(HashA), 0, 21), ScriptP2WPKH(HashA) \o <<0>>,
              <<169, 20>> \o HashA \o <<135>>,
              <<0, 32>> \o HashA \o Repeat(9, 12)}

\* a transaction whose first output carries the script s and whose second pays A
TxWithScript(s) ==
    MkTx(<<TxIn(<<>>)>>,
         <<TxOut(ValueBytes(7), s), TxOut(ValueBytes(9), ScriptP2PKH(HashA))>>)

\* a legacy-encoded transaction with no input and one output, of v satoshis to A:
\* after the version come the input count 0x00 and the output count 0x01
TxLegacyNoInputs(v) == MkTx(<<>>, <<TxOut(ValueBytes(v), ScriptP2PKH(HashA))>>)

\* two inputs with 1-byte and 2-byte scripts, then 5000 to A and 700 to B: the
\* outpoints filled with the byte o, the input scripts with the byte s, the
\* sequence fields with the byte q, and the bytes t after the last output
TxVariant(o, s, q, t) ==
    <<1, 0, 0, 0>> \o <<2>>
        \o Repeat(o, 36) \o <<1, s>> \o Repeat(q, 4)
        \o Repeat(o, 36) \o <<2, s, s>> \o Repeat(q, 4)
        \o <<2>> \o TxOut(ValueBytes(5000), ScriptP2PKH(HashA))
        \o TxOut(ValueBytes(700), ScriptP2WPKH(HashB))
        \o t

\* what may follow the last output: nothing, a locktime, a witness stack and a
\* locktime, bytes that are neither
TrailingBytes == {<<>>, <<0, 0, 0, 0>>, <<1, 2, 7, 7, 0, 0, 0, 0>>, <<253, 255, 9>>}

\* the variants in hex, worked out once
InputVariantsHex ==
    {hex_encode(TxVariant(o, s, q, t)) :
        <<o, s, q, t>> \in {0, 171, 255} \X {0, 81, 253} \X {0, 255} \X TrailingBytes}

ParseInputs ==
    {hex_encode(Slice(TxPay, 0, n)) : n \in 0..Len(TxPay)}
        \cup {hex_encode(Slice(TxSegwit, 0, n)) : n \in 0..Len(TxSegwit)}
        \cup {hex_encode(TxHugeOutputScript), hex_encode(TxHugeInputScript),
              hex_encode(TxManyOutputs), hex_encode(TxOverflow), NotHex,
              Tail(hex_encode(TxZero)), hex_encode(TxMixed)}
        \cup {hex_encode(TxWithScript(s)) : s \in ClassifyScripts}
        \cup {hex_encode(TxLegacyNoInputs(v)) : v \in {0, 5}}
        \cup InputVariantsHex
        \cup {hex_encode(TxInputLoop)}

InitParse ==
    /\ p_tx_hex \in ParseInputs
    /\ p_pc = "start"
    /\ tx_bytes = <<>>
    /\ cursor = 0
    /\ count = U64Zero
    /\ iter = 0
    /\ outputs = <<>>
    /\ p_result = NoResult
    /\ overflow_checks \in BOOLEAN
    /\ VerifyIdle
    /\ FnIdle
    /\ HandlerIdle
    /\ GuestIdle
    /\ OneInvocation

NextParse == parse_tx_outputs

SpecParse == InitParse /\ [][NextParse]_vars

\* the bytes a compact-size integer at offset c of b occupies, by its first byte
VarintWidth(b, c) ==
    IF b[c + 1] = 253 THEN 3 ELSE IF b[c + 1] = 254 THEN 5 ELSE IF b[c + 1] = 255 THEN 9 ELSE 1

\* the integer it encodes, little-endian after the first byte
VarintValue(b, c) ==
    IF VarintWidth(b, c) = 1 THEN <<b[c + 1], 0, 0, 0>>
    ELSE [k \in 1..4 |->
            (IF 2 * k - 1 < VarintWidth(b, c) THEN b[c + 2 * k] ELSE 0)
                + 256 * (IF 2 * k < VarintWidth(b, c) THEN b[c + 2 * k + 1] ELSE 0)]

VarintShort(b, c) == c >= Len(b) \/ c + VarintWidth(b, c) > Len(b)

\* some output from offset c on, the k-th of n, needs more bytes than b holds
RECURSIVE TruncatedOutputs(_, _, _, _)
TruncatedOutputs(b, c, n, k) ==
    /\ U64GtInt(n, k)
    /\ \/ c + 8 > Len(b)
       \/ VarintShort(b, c + 8)
       \/ LET c2 == c + 8 + VarintWidth(b, c + 8)
              script_len == VarintValue(b, c + 8)
          IN  \/ U64GtInt(script_len, Len(b) - c2)
              \/ TruncatedOutputs(b, c2 + U64ToInt(script_len), n, k + 1)

\* some input from offset c on, the k-th of n, or what follows the inputs, needs more
RECURSIVE TruncatedInputs(_, _, _, _)
TruncatedInputs(b, c, n, k) ==
    IF ~U64GtInt(n, k) THEN
        \/ VarintShort(b, c)
        \/ TruncatedOutputs(b, c + VarintWidth(b, c), VarintValue(b, c), 0)
    ELSE
        \/ c + 36 > Len(b)
        \/ VarintShort(b, c + 36)
        \/ LET c2 == c + 36 + VarintWidth(b, c + 36)
               script_len == VarintValue(b, c + 36)
           IN  \/ Len(b) - c2 < 4
               \/ U64GtInt(script_len, Len(b) - c2 - 4)
               \/ TruncatedInputs(b, c2 + U64ToInt(script_len) + 4, n, k + 1)

\* some step of the transaction layout needs more bytes than the buffer b holds
Truncated(b) ==
    \/ Len(b) < 4
    \/ LET c == IF Len(b) > 5 /\ b[5] = 0 /\ b[6] = 1 THEN 6 ELSE 4
       IN  \/ VarintShort(b, c)
           \/ TruncatedInputs(b, c + VarintWidth(b, c), VarintValue(b, c), 0)

\* C10: whenever a step of parse_tx_outputs needs more bytes than remain in the
\* buffer, the parse returns an error and no output list, and it never panics
\* (a read past the end of a slice is a panic)
C10_TruncatedIsError ==
    (p_pc = "done" /\ IsOk(hex_decode(p_tx_hex))) =>
        /\ ~IsPanic(p_result)
        /\ Truncated(hex_decode(p_tx_hex).val) => IsErr(p_result) /\ p_result.val = <<>>

\* the offset at which the output count of b starts, after n inputs from offset c on
RECURSIVE InputsEnd(_, _, _, _)
InputsEnd(b, c, n, k) ==
    IF ~U64GtInt(n, k) THEN c
    ELSE LET c2 == c + 36 + VarintWidth(b, c + 36)
         IN  InputsEnd(b, c2 + U64ToInt(VarintValue(b, c + 36)) + 4, n, k + 1)

\* the n outputs serialized in b from offset c on: the eight value bytes as a
\* little-endian integer, and the script bytes
RECURSIVE OutputsFrom(_, _, _, _)
OutputsFrom(b, c, n, k) ==
    IF ~U64GtInt(n, k) THEN <<>>
    ELSE LET c2 == c + 8 + VarintWidth(b, c + 8)
             e == c2 + U64ToInt(VarintValue(b, c + 8))
         IN  <<[value |-> [j \in 1..4 |-> b[c + 2 * j - 1] + 256 * b[c + 2 * j]],
                script |-> [j \in 1..(e - c2) |-> b[c2 + j]]]>>
                 \o OutputsFrom(b, e, n, k + 1)

\* the outputs a transaction b that is not truncated serializes, in order
SerializedOutputs(b) ==
    LET c == IF Len(b) > 5 /\ b[5] = 0 /\ b[6] = 1 THEN 6 ELSE 4
        o == InputsEnd(b, c + VarintWidth(b, c), VarintValue(b, c), 0)
    IN  OutputsFrom(b, o + VarintWidth(b, o), VarintValue(b, o), 0)

\* OP_DUP OP_HASH160 <20 bytes> OP_EQUALVERIFY OP_CHECKSIG
IsP2PKH(s) ==
    Len(s) = 25 /\ <<s[1], s[2], s[3]>> = <<118, 169, 20>> /\ <<s[24], s[25]>> = <<136, 172>>

\* OP_0 <20 bytes>
IsP2WPKH(s) == Len(s) = 22 /\ <<s[1], s[2]>> = <<0, 20>>

\* bit i (from 0, most significant first) of the byte string h
BitOf(h, i) == (h[(i \div 8) + 1] \div (2 ^ (7 - (i % 8)))) % 2

\* the bits of h in groups of five, most significant first, zero-padded at the end
FiveBitGroups(h) ==
    [g \in 1..((8 * Len(h) + 4) \div 5) |->
        LET bit(j) == IF 5 * (g - 1) + j < 8 * Len(h) THEN BitOf(h, 5 * (g - 1) + j) ELSE 0
        IN  16 * bit(0) + 8 * bit(1) + 4 * bit(2) + 2 * bit(3) + bit(4)]

\* the mainnet address of a pay-to-hash script: Base58Check with version 0 for
\* P2PKH, Bech32 with hrp bc and witness version 0 for P2WPKH
AddressOf(s) ==
    IF IsP2PKH(s) THEN
        LET payload == <<0>> \o [j \in 1..20 |-> s[3 + j]]
        IN  bs58_encode(payload \o [j \in 1..4 |-> sha256d(payload)[j]])
    ELSE bech32_encode(<<98, 99>>, <<0>> \o FiveBitGroups([j \in 1..20 |-> s[2 + j]]), "Bech32")

\* the entry the parser holds for a recognised output
EntryOf(o) == [addr |-> AddressOf(o.script), val |-> o.value]

Recognised(o) == IsP2PKH(o.script) \/ IsP2WPKH(o.script)

\* the parse of a transaction whose declared lengths fit the buffer has returned
ParsedWhole ==
    /\ p_pc = "done"
    /\ IsOk(hex_decode(p_tx_hex))
    /\ ~Truncated(hex_decode(p_tx_hex).val)

\* C11 as the specification words it: one entry per serialized output, in order,
\* an unrecognised output kept with its value and an absent address, so that the
\* number of parsed outputs is the declared output count
C11_OneEntryPerSerializedOutput ==
    ParsedWhole =>
        LET outs == SerializedOutputs(hex_decode(p_tx_hex).val)
        IN  /\ IsOk(p_result)
            /\ Len(p_result.val) = Len(outs)
            /\ \A i \in 1..Len(outs) :
                    /\ p_result.val[i].val = outs[i].value
                    /\ Recognised(outs[i]) => p_result.val[i].addr = AddressOf(outs[i].script)

\* C11: for every transaction whose declared lengths fit the buffer,
\* parse_tx_outputs returns one entry per serialized output whose script is
\* P2PKH or P2WPKH, in serialized order, with its value and address; an output
\* whose script matches neither pattern is left out of the list
C11_OneEntryPerRecognisedOutput ==
    ParsedWhole =>
        LET outs == SerializedOutputs(hex_decode(p_tx_hex).val)
            kept == SelectSeq(outs, Recognised)
        IN  p_result = Ok([i \in 1..Len(kept) |-> EntryOf(kept[i])])

\* a whole transaction with an unrecognised output among recognised ones was parsed
C11_Witness ==
    /\ ParsedWhole
    /\ \E o \in {SerializedOutputs(hex_decode(p_tx_hex).val)} :
            /\ \E i \in 1..Len(o) : ~Recognised(o[i])
            /\ \E i \in 1..Len(o) : Recognised(o[i])
            /\ Len(p_result.val) < Len(o)

\* C12: for a well-formed transaction all of whose output scripts are P2PKH or
\* P2WPKH, the parse skips the version and every input and returns exactly the
\* declared number of outputs, the i-th entry carrying the little-endian 64-bit
\* value and the address of the i-th serialized output
C12_RecognisedOutputsInOrder ==
    (ParsedWhole /\ \A i \in 1..Len(SerializedOutputs(hex_decode(p_tx_hex).val)) :
                        Recognised(SerializedOutputs(hex_decode(p_tx_hex).val)[i])) =>
        LET outs == SerializedOutputs(hex_decode(p_tx_hex).val)
        IN  /\ IsOk(p_result)
            /\ Len(p_result.val) = Len(outs)
            /\ \A i \in 1..Len(outs) :
                    /\ p_result.val[i].val = outs[i].value
                    /\ p_result.val[i].addr = AddressOf(outs[i].script)

\* a transaction with two inputs and three recognised outputs of both kinds,
\* one of them with a value above 2^63, was parsed
C12_Witness ==
    /\ ParsedWhole
    /\ hex_decode(p_tx_hex).val = TxMixed
    /\ Len(p_result.val) = 3
    /\ p_result.val[2] = [addr |-> AddrA, val |-> <<0, 0, 0, 32768>>]

\* the outputs among the first i of outs that carry a pay-to-hash script
RankOf(outs, i) == Cardinality({j \in 1..i : Recognised(outs[j])})

\* C23: an output script is recognised as P2PKH iff it is exactly the 25 bytes
\* 0x76 0xa9 0x14 <20 bytes> 0x88 0xac, and as P2WPKH iff it is exactly the 22
\* bytes 0x00 0x14 <20 bytes>; a script of any other shape yields no address, is
\* not an error of the parse, and has no entry that could count towards a total
C23_ScriptClassification ==
    ParsedWhole =>
        LET outs == SerializedOutputs(hex_decode(p_tx_hex).val)
        IN  /\ IsOk(p_result)
            /\ Len(p_result.val) = RankOf(outs, Len(outs))
            /\ \A i \in 1..Len(outs) :
                LET s == outs[i].script
                    entry == p_result.val[RankOf(outs, i)]
                    p2pkh == Len(s) = 25 /\ s = <<118, 169, 20>> \o SubSeq(s, 4, 23) \o <<136, 172>>
                    p2wpkh == Len(s) = 22 /\ s = <<0, 20>> \o SubSeq(s, 3, 22)
                IN  /\ p2pkh => /\ entry.val = outs[i].value
                                 /\ entry.addr[1] = 49
                                 /\ entry.addr = AddressOf(s)
                    /\ p2wpkh => /\ entry.val = outs[i].value
                                  /\ IsPrefix(<<98, 99, 49, 113>>, entry.addr)
                                  /\ entry.addr = AddressOf(s)
                    /\ Recognised(outs[i]) <=> (p2pkh \/ p2wpkh)

\* a 25-byte script that differs from the P2PKH pattern in its last-but-one byte
\* only was parsed: no entry for it, one for the output after it
C23_Witness ==
    /\ ParsedWhole
    /\ hex_decode(p_tx_hex).val = TxWithScript(ScriptWith(ScriptP2PKH(HashB), 24, 135))
    /\ p_result = Ok(<<[addr |-> AddrA, val |-> U64OfInt(9)]>>)

\* C24: parse_tx_outputs skips two more bytes after the 4-byte version exactly when
\* bytes 4 and 5 of the buffer are 0x00 and 0x01, and otherwise reads the input
\* count at offset 4; so a legacy-encoded transaction with no input and one
\* output is read as segwit-encoded and its output is not returned
C24_SegwitMarkerTest ==
    /\ (p_pc = "inputs" /\ iter = 0) =>
        LET segwit == Len(tx_bytes) >= 6 /\ tx_bytes[5] = 0 /\ tx_bytes[6] = 1
            at == IF segwit THEN 6 ELSE 4
        IN  /\ count = VarintValue(tx_bytes, at)
            /\ cursor = at + VarintWidth(tx_bytes, at)
    /\ \A v \in {0, 5} :
        (p_pc = "done" /\ p_tx_hex = hex_encode(TxLegacyNoInputs(v))) =>
            /\ p_result # Ok(<<[addr |-> AddrA, val |-> U64OfInt(v)]>>)
            /\ p_result = IF v = 0 THEN Ok(<<>>) ELSE Err("tx too short for input script")

\* the legacy transaction with no input that pays 0 to A was parsed: its value
\* bytes were read as the two counts, and no output came back
C24_Witness ==
    /\ p_pc = "done"
    /\ p_tx_hex = hex_encode(TxLegacyNoInputs(0))
    /\ tx_bytes[5] = 0
    /\ tx_bytes[6] = 1
    /\ p_result = Ok(<<>>)

\* C25: the result of parse_tx_outputs depends only on the segwit marker test, the
\* input count, the input script lengths and the output section: buffers that
\* agree on these give the same result whatever the bytes of the outpoints, the
\* input scripts and the sequence fields, and whatever follows the last output
C25_InputContentAndTrailIgnored ==
    (p_pc = "done" /\ p_tx_hex \in InputVariantsHex) =>
        p_result = Ok(<<[addr |-> AddrA, val |-> U64OfInt(5000)],
                        [addr |-> AddrB, val |-> U64OfInt(700)]>>)

\* the variant with zeroed outpoints, scripts of 0xfd bytes, zeroed sequence
\* fields and three stray bytes after the outputs was parsed to the end
C25_Witness ==
    /\ p_pc = "done"
    /\ p_tx_hex = hex_encode(TxVariant(0, 253, 0, <<253, 255, 9>>))
    /\ IsOk(p_result)
    /\ Len(p_result.val) = 2
    /\ cursor = Len(tx_bytes) - 3

\* C26: in parse_tx_outputs the bound computations cursor + 36, cursor + script_len
\* + 4, cursor + 8 and cursor + script_len, and the cast of the 64-bit script
\* length to the machine word, never overflow or wrap for any declared script
\* length up to 2^64-1: the cursor stays within the buffer after every step, and
\* a declared length larger than the bytes that remain is reported as an error
C26_BoundsNeverOverflow ==
    /\ ~IsPanic(p_result)
    /\ 0 <= cursor /\ cursor <= Len(tx_bytes)
    /\ (p_pc = "done" /\ IsOk(hex_decode(p_tx_hex))
            /\ Truncated(hex_decode(p_tx_hex).val)) => IsErr(p_result)

\* C27: parse_tx_outputs terminates on every buffer: the cursor strictly increases
\* in every loop iteration, by at least 41 bytes for an input and at least 9 for
\* an output, so the number of iterations is bounded by the buffer length and not
\* by the declared count, even when the count is 2^64-1
C27_CursorAdvancesEveryIteration ==
    [][/\ (p_pc = "inputs" /\ p_pc' = "inputs" /\ iter' = iter + 1) =>
            (cursor' >= cursor + 41 /\ 41 * iter' <= Len(tx_bytes))
       /\ (p_pc = "outputs" /\ p_pc' = "outputs" /\ iter' = iter + 1) =>
            (cursor' >= cursor + 9 /\ 9 * iter' <= Len(tx_bytes))]_vars

(***************************************************************************)
(* verify_merkle_proof on its own                                          *)
(***************************************************************************)
CallVerifyMerkleProof ==
    /\ fn = "verify_merkle_proof"
    /\ ~fn_done
    /\ fn_done' = TRUE
    /\ fn_ret' = Ok(verify_merkle_proof(fn_args.tx_hash, fn_args.merkle_siblings,
                                        fn_args.pos, fn_args.merkle_root))
    /\ UNCHANGED <<fn, fn_args, verifyVars, parseVars, overflow_checks, threadVars,
                   handlerVars, guestVars>>

\* bounds of the proofs verify_merkle_proof is applied to
MaxProofLen == 2

MaxProofPos == 3

ProofSiblings == {SiblingBytes(1), SiblingBytes(2)}

ProofLists == UNION {[1..n -> ProofSiblings] : n \in 0..MaxProofLen}

\* roots that the proof reaches, by either fold, and roots that it does not
ProofRoots(leaf, sibs, p) ==
    {RefFold(leaf, sibs, p), MerkleLoop(leaf, sibs, 1, p), RefFold(leaf, sibs, p + 1), leaf}

MerkleCalls ==
    UNION {{[tx_hash |-> leaf, merkle_siblings |-> sibs, pos |-> p, merkle_root |-> root] :
                root \in ProofRoots(leaf, sibs, p)} :
            <<leaf, sibs, p>> \in {sha256d(TxPay), sha256d(TxZero)} \X ProofLists
                                    \X (0..MaxProofPos)}

OnlyFn ==
    /\ fn_done = FALSE
    /\ fn_ret = NoResult
    /\ overflow_checks = TRUE
    /\ VerifyIdle
    /\ ParseIdle
    /\ HandlerIdle
    /\ GuestIdle
    /\ OneInvocation

InitMerkle ==
    /\ fn = "verify_merkle_proof"
    /\ fn_args \in MerkleCalls
    /\ OnlyFn

NextMerkle == CallVerifyMerkleProof

SpecMerkle == InitMerkle /\ [][NextMerkle]_vars

\* the fold of claim C5, spelled out from the leaf upwards: cur and p after k siblings
RECURSIVE FoldCur(_, _, _, _)
FoldCur(leaf, sibs, p, k) ==
    IF k = 0 THEN [cur |-> leaf, p |-> p]
    ELSE LET before == FoldCur(leaf, sibs, p, k - 1)
         IN  [cur |-> IF before.p % 2 = 0 THEN sha256d(before.cur \o sibs[k])
                      ELSE sha256d(sibs[k] \o before.cur),
              p |-> before.p \div 2]

\* C5: verify_merkle_proof(leaf, siblings, pos, root) is true iff the reference fold
\* (cur = leaf, p = pos; per sibling s: cur = sha256d(cur || s) for even p, else
\* sha256d(s || cur); p = p div 2) ends in root; with no sibling, iff leaf = root
C5_MerkleIsReferenceFold ==
    (fn = "verify_merkle_proof" /\ fn_done) =>
        /\ fn_ret.val =
            (FoldCur(fn_args.tx_hash, fn_args.merkle_siblings, fn_args.pos,
                     Len(fn_args.merkle_siblings)).cur = fn_args.merkle_root)
        /\ fn_args.merkle_siblings = <<>> =>
            (fn_ret.val = (fn_args.tx_hash = fn_args.merkle_root))

\* a proof of two levels at an odd position was accepted
C5_Witness ==
    /\ fn = "verify_merkle_proof"
    /\ fn_done
    /\ fn_ret.val = TRUE
    /\ Len(fn_args.merkle_siblings) = 2
    /\ fn_args.pos = 1

\* the 32-byte values that differ from s in exactly one byte, at one of three places
OneByteOff(s) ==
    {[s EXCEPT ![k] = (s[k] + d) % 256] : <<k, d>> \in {1, 17, 32} \X {1, 128}}

\* C6: when verify_merkle_proof is true, replacing any one sibling by a value that
\* differs from it in one byte makes it false
C6_SiblingByteFlipRejects ==
    (fn = "verify_merkle_proof" /\ fn_done /\ fn_ret.val = TRUE) =>
        \A i \in 1..Len(fn_args.merkle_siblings) :
            \A other \in OneByteOff(fn_args.merkle_siblings[i]) :
                ~verify_merkle_proof(fn_args.tx_hash,
                                     [fn_args.merkle_siblings EXCEPT ![i] = other],
                                     fn_args.pos, fn_args.merkle_root)

\* a proof of two levels was accepted, so both of its siblings were replaced
C6_Witness ==
    /\ fn = "verify_merkle_proof"
    /\ fn_done
    /\ fn_ret.val = TRUE
    /\ Len(fn_args.merkle_siblings) = 2
    /\ fn_args.pos = 2

\* how many multiples of 2^n are added to a position
MaxShift == 2

\* C28: verify_merkle_inclusion uses only the n lowest bits of pos, n being the
\* number of siblings: the result for pos equals the result for pos + k * 2^n, and
\* no position is rejected for being 2^n or more (with no sibling, every position
\* is accepted when leaf = root)
C28_OnlyLowBitsOfPosition ==
    (fn = "verify_merkle_proof" /\ fn_done) =>
        LET n == Len(fn_args.merkle_siblings)
        IN  /\ \A k \in 1..MaxShift :
                    verify_merkle_inclusion(fn_args.tx_hash, fn_args.merkle_siblings,
                                            fn_args.pos + k * 2 ^ n,
                                            fn_args.merkle_root) = fn_ret.val
            /\ fn_ret.val =
                    verify_merkle_inclusion(fn_args.tx_hash, fn_args.merkle_siblings,
                                            fn_args.pos % 2 ^ n, fn_args.merkle_root)
            /\ n = 0 => (fn_ret.val = (fn_args.tx_hash = fn_args.merkle_root))

\* a proof of one level was accepted at position 3, beyond the two leaves of a
\* tree of that depth
C28_Witness ==
    /\ fn = "verify_merkle_proof"
    /\ fn_done
    /\ fn_ret.val = TRUE
    /\ Len(fn_args.merkle_siblings) = 1
    /\ fn_args.pos = 3

(***************************************************************************)
(* block_header_merkle_root_and_block_hash on its own                      *)
(***************************************************************************)
CallBlockHeader ==
    /\ fn = "block_header_merkle_root_and_block_hash"
    /\ ~fn_done
    /\ fn_done' = TRUE
    /\ fn_ret' = block_header_merkle_root_and_block_hash(fn_args.header_hex)
    /\ UNCHANGED <<fn, fn_args, verifyVars, parseVars, overflow_checks, threadVars,
                   handlerVars, guestVars>>

\* the headers are up to this many bytes shorter or longer than 80
HeaderSpread == 3

\* a header cut or zero-padded to n bytes
HeaderOfLen(root, n) ==
    IF n <= 80 THEN Slice(MkHeader(root), 0, n) ELSE MkHeader(root) \o Repeat(0, n - 80)

\* hex in lowercase and in uppercase, with a character dropped, with one that is no digit
HexForms(bytes) ==
    {hex_encode(bytes),
     [i \in 1..(2 * Len(bytes)) |->
        IF hex_encode(bytes)[i] >= 97 THEN hex_encode(bytes)[i] - 32 ELSE hex_encode(bytes)[i]],
     Tail(hex_encode(bytes)),
     [hex_encode(bytes) EXCEPT ![2 * Len(bytes)] = 103]}

HeaderCalls ==
    {[header_hex |-> h] :
        h \in UNION {HexForms(HeaderOfLen(SiblingBytes(r), n)) :
                        <<r, n>> \in (1..3) \X ((80 - HeaderSpread)..(80 + HeaderSpread))}}

InitHeader ==
    /\ fn = "block_header_merkle_root_and_block_hash"
    /\ fn_args \in HeaderCalls
    /\ OnlyFn

NextHeader == CallBlockHeader

SpecHeader == InitHeader /\ [][NextHeader]_vars

\* the ASCII codes of 0-9, A-F, a-f
HexChars == (48..57) \cup (65..70) \cup (97..102)

IsHexString(h) == Len(h) % 2 = 0 /\ \A i \in 1..Len(h) : h[i] \in HexChars

\* C7: block_header_merkle_root_and_block_hash returns an error, and neither a Merkle
\* root nor a block hash, for every header that is not valid hex or whose decoded
\* length is not exactly 80 bytes
C7_BadHeaderIsError ==
    (fn = "block_header_merkle_root_and_block_hash" /\ fn_done
        /\ (~IsHexString(fn_args.header_hex) \/ Len(fn_args.header_hex) # 160)) =>
            IsErr(fn_ret) /\ fn_ret.val = <<>>

\* a header of 81 bytes, in valid hex, was read
C7_Witness ==
    /\ fn = "block_header_merkle_root_and_block_hash"
    /\ fn_done
    /\ IsHexString(fn_args.header_hex)
    /\ Len(fn_args.header_hex) = 162

(***************************************************************************)
(* sum_outputs_to_target on its own                                        *)
(***************************************************************************)
CallSumOutputs ==
    /\ fn = "sum_outputs_to_target"
    /\ ~fn_done
    /\ fn_done' = TRUE
    /\ fn_ret' = sum_outputs_to_target(fn_args.parsed_outputs, fn_args.target_address)
    /\ UNCHANGED <<fn, fn_args, verifyVars, parseVars, overflow_checks, threadVars,
                   handlerVars, guestVars>>

\* the output lists hold up to this many outputs
MaxOutputs == 2

HashC == [i \in 1..20 |-> 200 + i]

\* the bech32 address of a hash that no output pays
AddrCBech32 == extract_p2wpkh_address(ScriptP2WPKH(HashC)).val

\* 2^63
U64Half == <<0, 0, 0, LimbBase \div 2>>

SumOutputs ==
    {[addr |-> a, val |-> v] :
        <<a, v>> \in {AddrA, AddrB} \X {U64Zero, U64OfInt(5), U64Half, U64Max}}

\* the bech32 address of the hash that AddrA pays by P2PKH
AddrABech32 == extract_p2wpkh_address(ScriptP2WPKH(HashA)).val

SumTargets ==
    {AddrA, AddrB, AddrBTestnet, AddrCBech32, AddrAbsent, AddrBadBech32, AddrABech32}

\* "1BUBQuPV3gEV7P2XLNuAJQjf5t265Yyj9t", the target of the end-to-end test
RefTarget ==
    <<49, 66, 85, 66, 81, 117, 80, 86, 51, 103, 69, 86, 55, 80, 50, 88, 76, 78, 117, 65, 74,
      81, 106, 102, 53, 116, 50, 54, 53, 89, 121, 106, 57, 116>>

\* the outputs of the transaction of the tests: 1240000000 to RefTarget, 782740000
\* to 1JdNy4KC..., 1375350000 to 1KE8pX7V..., 2615350000 to 1wizSAYS...
RefTxOutputs ==
    <<[addr |-> RefTarget, val |-> <<58880, 18920, 0, 0>>],
      [addr |-> <<49, 74, 100, 78, 121, 52, 75, 67, 78, 86, 81, 54, 97, 121, 56, 113, 115,
                  99, 53, 50, 68, 87, 49, 84, 116, 83, 55, 90, 67, 110, 118, 74, 53, 87>>,
       val |-> <<43552, 11943, 0, 0>>],
      [addr |-> <<49, 75, 69, 56, 112, 88, 55, 86, 55, 68, 56, 98, 52, 67, 100, 53, 68, 76,
                  49, 106, 90, 119, 106, 121, 50, 118, 83, 53, 78, 116, 90, 112, 66, 84>>,
       val |-> <<11504, 20986, 0, 0>>],
      [addr |-> <<49, 119, 105, 122, 83, 65, 89, 83, 98, 117, 121, 88, 98, 116, 57, 100, 56,
                  74, 86, 56, 121, 116, 109, 53, 97, 99, 113, 113, 50, 84, 111, 114, 67>>,
       val |-> <<4848, 39907, 0, 0>>]>>

SumCalls ==
    {[parsed_outputs |-> outs, target_address |-> t] :
        <<outs, t>> \in (UNION {[1..n -> SumOutputs] : n \in 0..MaxOutputs}) \X SumTargets}
        \cup {[parsed_outputs |-> RefTxOutputs, target_address |-> t] :
                t \in {RefTarget, AddrAbsent}}

InitSum ==
    /\ fn = "sum_outputs_to_target"
    /\ fn_args \in SumCalls
    /\ OnlyFn

NextSum == CallSumOutputs

SpecSum == InitSum /\ [][NextSum]_vars

\* what each address of the calls decodes to, worked out once
DecodedAddresses ==
    [a \in SumTargets \cup {o.addr : o \in SumOutputs} |-> decode_bech32_pubkey_hash(a)]

\* what an address decodes to
Decoded(a) ==
    IF a \in DOMAIN DecodedAddresses THEN DecodedAddresses[a]
    ELSE decode_bech32_pubkey_hash(a)

\* section 4.6 of the specification: by canonical hash when the target decodes as
\* bech32, else by exact string equality
Matches(addr, target) ==
    IF IsOk(Decoded(target))
    THEN /\ IsOk(Decoded(addr))
         /\ Decoded(addr).val = Decoded(target).val
    ELSE addr = target

Matching(outs, target) == {i \in 1..Len(outs) : Matches(outs[i].addr, target)}

\* C3: payment aggregation returns the no-payment error whenever zero outputs match
\* the target, Ok(0) when at least one output matches and every matching value is 0,
\* and never Ok(0) for zero matches
C3_NoPaymentIsNotZero ==
    (fn = "sum_outputs_to_target" /\ fn_done) =>
        LET m == Matching(fn_args.parsed_outputs, fn_args.target_address)
        IN  /\ m = {} => fn_ret = Err("no outputs to target")
            /\ (m # {} /\ \A i \in m : fn_args.parsed_outputs[i].val = U64Zero) =>
                    fn_ret = Ok(U64Zero)
            /\ fn_ret = Ok(U64Zero) => m # {}

\* the sum of limb k over the outputs in m, as a plain integer
RECURSIVE LimbSum(_, _, _)
LimbSum(outs, m, k) ==
    IF m = {} THEN 0
    ELSE LET i == CHOOSE j \in m : TRUE
         IN  outs[i].val[k] + LimbSum(outs, m \ {i}, k)

\* the exact sum of the matching values: five limbs, the fifth above 2^64
ExactSum(outs, m) ==
    LET s1 == LimbSum(outs, m, 1)
        s2 == LimbSum(outs, m, 2) + (s1 \div LimbBase)
        s3 == LimbSum(outs, m, 3) + (s2 \div LimbBase)
        s4 == LimbSum(outs, m, 4) + (s3 \div LimbBase)
    IN  <<s1 % LimbBase, s2 % LimbBase, s3 % LimbBase, s4 % LimbBase, s4 \div LimbBase>>

\* C4: a total returned by payment aggregation is the exact integer sum of the
\* matching values; when that sum exceeds 2^64-1 the call returns the overflow error
C4_TotalIsExactSum ==
    (fn = "sum_outputs_to_target" /\ fn_done) =>
        LET exact == ExactSum(fn_args.parsed_outputs,
                              Matching(fn_args.parsed_outputs, fn_args.target_address))
        IN  /\ IsOk(fn_ret) => exact = fn_ret.val \o <<0>>
            /\ exact[5] > 0 => fn_ret = Err("overflow adding outputs")

\* two matching values whose sum is 2^64 + 4 were added
C4_Witness ==
    /\ fn = "sum_outputs_to_target"
    /\ fn_done
    /\ fn_args.target_address = AddrB
    /\ fn_args.parsed_outputs =
        <<[addr |-> AddrB, val |-> U64Max], [addr |-> AddrB, val |-> U64OfInt(5)]>>
    /\ fn_ret = Err("overflow adding outputs")

\* the outputs whose address is the target, character for character
SameString(outs, target) == {i \in 1..Len(outs) : outs[i].addr = target}

\* what adding up the values of the outputs in m gives: the no-payment error for
\* none, the overflow error above 2^64-1, else the total
Aggregate(outs, m) ==
    IF m = {} THEN Err("no outputs to target")
    ELSE IF ExactSum(outs, m)[5] > 0 THEN Err("overflow adding outputs")
    ELSE Ok([k \in 1..4 |-> ExactSum(outs, m)[k]])

\* C14: when the target is not bech32-decodable, whatever its prefix, payment
\* aggregation falls back to exact string equality and does not fail with an
\* address-decode error
C14_UndecodableTargetFallsBack ==
    (fn = "sum_outputs_to_target" /\ fn_done
        /\ ~IsOk(decode_bech32_pubkey_hash(fn_args.target_address))) =>
        fn_ret = Aggregate(fn_args.parsed_outputs,
                           SameString(fn_args.parsed_outputs, fn_args.target_address))

\* the two bech32 spellings (hrp bc and hrp tb) of the witness-version-0 address of h
Bech32AddressesOf(h) ==
    {bech32_encode(hrp, <<0>> \o FiveBitGroups(h), "Bech32") : hrp \in {<<98, 99>>, <<116, 98>>}}

\* the 20-byte hashes of the model's addresses
KnownHashes == {HashA, HashB, HashC}

\* the bech32 spellings of each of them, worked out once
KnownBech32 == [h \in KnownHashes |-> Bech32AddressesOf(h)]

\* C15: when the target is a bc1/tb1 address that decodes to a 20-byte hash h, the
\* total is the sum of the values of exactly the outputs whose address is a bech32
\* address of h, under either hrp; a P2PKH address of the same hash contributes
\* nothing, and an output that does not match never changes the total
C15_Bech32TargetMatchesByHash ==
    (fn = "sum_outputs_to_target" /\ fn_done
        /\ \E h \in KnownHashes : fn_args.target_address \in KnownBech32[h]) =>
        LET h == CHOOSE x \in KnownHashes : fn_args.target_address \in KnownBech32[x]
            m == {i \in 1..Len(fn_args.parsed_outputs) :
                    fn_args.parsed_outputs[i].addr \in KnownBech32[h]}
        IN  fn_ret = Aggregate(fn_args.parsed_outputs, m)

\* a tb1 target took the value of a bc1 output of its hash and left out the
\* other output
C15_Witness ==
    /\ fn = "sum_outputs_to_target"
    /\ fn_done
    /\ fn_args.target_address = AddrBTestnet
    /\ fn_args.parsed_outputs =
        <<[addr |-> AddrA, val |-> U64Half], [addr |-> AddrB, val |-> U64OfInt(5)]>>
    /\ fn_ret = Ok(U64OfInt(5))

\* C16: when the target starts with neither bc1 nor tb1, the total is the sum of
\* the values of exactly the outputs whose address string equals the target; for
\* the outputs of the reference transaction and the target 1BUBQuPV... one output
\* matches and the total is 1240000000
C16_LegacyTargetMatchesByString ==
    (fn = "sum_outputs_to_target" /\ fn_done
        /\ ~IsPrefix(<<98, 99, 49>>, fn_args.target_address)
        /\ ~IsPrefix(<<116, 98, 49>>, fn_args.target_address)) =>
        /\ fn_ret = Aggregate(fn_args.parsed_outputs,
                              SameString(fn_args.parsed_outputs, fn_args.target_address))
        /\ (fn_args.parsed_outputs = RefTxOutputs /\ fn_args.target_address = RefTarget) =>
                /\ Cardinality(SameString(RefTxOutputs, RefTarget)) = 1
                /\ fn_ret = Ok(<<1240000000 % LimbBase, 1240000000 \div LimbBase, 0, 0>>)

\* the outputs of the reference transaction were added up for its target
C16_Witness ==
    /\ fn = "sum_outputs_to_target"
    /\ fn_done
    /\ fn_args.parsed_outputs = RefTxOutputs
    /\ fn_args.target_address = RefTarget
    /\ IsOk(fn_ret)

(***************************************************************************)
(* Claims on verify_tx_in_block_and_outputs                                *)
(***************************************************************************)
HexBytes(h) == hex_decode(h).val

\* the stage checks, each stated on the arguments of the call
TxidPasses ==
    /\ IsHexString(tx_hex)
    /\ IsHexString(expected_txid_hex)
    /\ Len(expected_txid_hex) = 64
    /\ [i \in 1..32 |-> HexBytes(expected_txid_hex)[33 - i]] = sha256d(HexBytes(tx_hex))

SiblingsPass ==
    \A i \in 1..Len(merkle_hex_siblings) :
        IsHexString(merkle_hex_siblings[i]) /\ Len(merkle_hex_siblings[i]) = 64

HeaderPasses == IsHexString(block_header_hex) /\ Len(block_header_hex) = 160

MerklePasses ==
    FoldCur(sha256d(HexBytes(tx_hex)),
            [i \in 1..Len(merkle_hex_siblings) |->
                [j \in 1..32 |-> HexBytes(merkle_hex_siblings[i])[33 - j]]],
            pos, Len(merkle_hex_siblings)).cur
        = [j \in 1..32 |-> HexBytes(block_header_hex)[36 + j]]

ParsePasses == ~Truncated(HexBytes(tx_hex))

PaymentPasses ==
    /\ IsOk(p_result)
    /\ Matching(p_result.val, target_address) # {}
    /\ ExactSum(p_result.val, Matching(p_result.val, target_address))[5] = 0

AllStagesPass ==
    /\ TxidPasses
    /\ SiblingsPass
    /\ HeaderPasses
    /\ MerklePasses
    /\ ParsePasses
    /\ PaymentPasses

\* C1: verify_tx_in_block_and_outputs returns Ok((blockHash, total)) iff every stage
\* check passes; in every other case it returns an error, and an expected txid that
\* differs from the computed hash gives the txid-mismatch error
C1_OkIffAllStagesPass ==
    pc = "done" =>
        /\ IsOk(result) <=> AllStagesPass
        /\ ~AllStagesPass => IsErr(result)
        /\ (IsHexString(tx_hex) /\ IsHexString(expected_txid_hex)
                /\ Len(expected_txid_hex) = 64 /\ ~TxidPasses) =>
                    result = Err("txid mismatch")

StageOrder == <<"txid", "siblings", "header", "merkle", "parse", "sum">>

\* whether the stage passes: the parse by what parse_tx_outputs returned
StagePasses(stage) ==
    CASE stage = "txid" -> TxidPasses
      [] stage = "siblings" -> SiblingsPass
      [] stage = "header" -> HeaderPasses
      [] stage = "merkle" -> MerklePasses
      [] stage = "parse" -> IsOk(p_result)
      [] stage = "sum" -> PaymentPasses

\* the error messages of each stage
StageErrors(stage) ==
    CASE stage = "txid" ->
            {"expected txid hex decode", "expected txid len != 32", "tx hex decode",
             "txid mismatch"}
      [] stage = "siblings" -> {"hex decode sibling", "sibling len != 32"}
      [] stage = "header" -> {"header hex decode", "block header must be 80 bytes"}
      [] stage = "merkle" -> {"merkle inclusion failed"}
      [] stage = "parse" ->
            {"tx hex decode", "tx too short for version", "empty varint",
             "varint too short for 0xfd", "varint too short for 0xfe",
             "varint too short for 0xff", "tx too short for input",
             "tx too short for input script", "tx too short for output value",
             "tx too short for output script"}
      [] stage = "sum" ->
            {"no outputs to target", "overflow adding outputs", "bech32 decode",
             "unexpected hrp", "expected Bech32 variant", "bech32 data empty",
             "non-zero witness version", "convert_bits failed", "expected 20 bytes"}

WholeHash ==
    [h \in {c.tx_hex : c \in VerifyCalls} |->
        IF IsOk(hex_decode(h)) THEN sha256d(hex_decode(h).val) ELSE <<>>]

\* C29: the leaf hash that verify compares with the expected txid and feeds to the
\* Merkle check is sha256d over the entire decoded txHex, segwit marker, flag and
\* witness included: nothing is removed before hashing
C29_LeafHashCoversWholeTx ==
    /\ leaf_internal # <<>> =>
            /\ leaf_internal = WholeHash[tx_hex]
            /\ leaf_internal = Reverse(HexBytes(expected_txid_hex))
    /\ (pc = "done" /\ result = Err("txid mismatch")) =>
            Reverse(HexBytes(expected_txid_hex)) # WholeHash[tx_hex]
    /\ pc \in {"parse", "parsing", "sum"} =>
            verify_merkle_inclusion(WholeHash[tx_hex], siblings_internal, pos,
                                    merkle_root_internal)
    /\ (pc = "done" /\ tx_hex = hex_encode(TxSegwit)
            /\ expected_txid_hex = ToDisplay(sha256d(TxSegwitStripped))) =>
                result = Err("txid mismatch")

\* a segwit-encoded transaction went through the txid check and a two-level
\* Merkle check with the hash of all of its bytes
C29_Witness ==
    /\ pc = "done"
    /\ IsOk(result)
    /\ tx_hex = hex_encode(TxSegwit)
    /\ Len(merkle_hex_siblings) = 2
    /\ leaf_internal = sha256d(TxSegwit)
    /\ leaf_internal # sha256d(TxSegwitStripped)

\* the bytes that each header hex of the calls decodes to and their sha256d,
\* worked out once
HeaderOf ==
    [h \in {c.block_header_hex : c \in VerifyCalls} |->
        [bytes |-> HexBytes(h), digest |-> sha256d(HexBytes(h))]]

\* C8: for an 80-byte header the Merkle root is header bytes [36,68) in stored order
\* and the block hash is the reversed sha256d of the 80 bytes in 64 lowercase hex
\* characters; a successful verify returns this block hash
C8_HeaderRootAndBlockHash ==
    (HeaderPasses /\ Len(trace) >= 3 /\ (pc = "done" => Len(trace) > 3 \/ IsOk(result))) =>
        LET digest == HeaderOf[block_header_hex].digest
            expected ==
                [i \in 1..64 |->
                    LET byte == digest[32 - ((i - 1) \div 2)]
                        nibble == IF i % 2 = 1 THEN byte \div 16 ELSE byte % 16
                    IN  IF nibble < 10 THEN 48 + nibble ELSE 87 + nibble]
        IN  /\ merkle_root_internal =
                    [j \in 1..32 |-> HeaderOf[block_header_hex].bytes[36 + j]]
            /\ block_hash_disp = expected
            /\ (pc = "done" /\ IsOk(result)) => result.val.block_hash = expected

\* a verify succeeded and returned a block hash
C8_Witness ==
    /\ pc = "done"
    /\ IsOk(result)
    /\ HeaderPasses
    /\ Len(result.val.block_hash) = 64

(***************************************************************************)
(* The request handler generate_bitcoin_proof and the guest program main   *)
(***************************************************************************)
None == [some |-> FALSE, val |-> <<>>]

Some(v) == [some |-> TRUE, val |-> v]

hex_to_reversed_bytes(s) ==
    LET bytes == hex_decode(s)
    IN  IF ~IsOk(bytes) THEN Err("Invalid hex: Invalid hex string")
        ELSE IF Len(bytes.val) # 32
            THEN Err("Invalid hex: Hex string must be exactly 64 characters (32 bytes)")
        ELSE Ok(Reverse(bytes.val))

\* the first sibling that fails decides the error; the message is kept without the
\* sibling's index and the cause that the code formats into it
validate_merkle_siblings(siblings) ==
    LET conv == [i \in 1..Len(siblings) |-> hex_to_reversed_bytes(siblings[i])]
        bad == {i \in 1..Len(conv) : ~IsOk(conv[i])}
    IN  IF bad # {} THEN Err("Invalid merkle siblings: Sibling: Invalid hex")
        ELSE Ok([i \in 1..Len(conv) |-> conv[i].val])

\* PublicValuesStruct { valid }: one ABI word holding the bool
abi_encode(valid) == Repeat(0, 31) \o <<IF valid THEN 1 ELSE 0>>

abi_decode(bytes) ==
    IF Len(bytes) # 32 \/ (\E i \in 1..31 : bytes[i] # 0) \/ bytes[32] > 1
    THEN Err("Decode error")
    ELSE Ok([valid |-> bytes[32] = 1])

\* the library function the guest imports: the txid check of section 4.9, step 1, as a bool
verify_bitcoin_tx_hash(txid_hex, raw_tx_hex) ==
    IsOk(verify_txid(txid_hex, raw_tx_hex)) /\ verify_txid(txid_hex, raw_tx_hex).val

Respond(r) ==
    /\ response' = r
    /\ h_pc' = "done"

Failure(e) == [success |-> FALSE, error |-> Some(e), public_values |-> None, proof |-> None]

\* handlers.rs lines 121-134: validate and convert merkle siblings
ValidateSiblings ==
    /\ h_pc = "siblings"
    /\ LET v == validate_merkle_siblings(request.merkle_siblings)
       IN  IF ~IsOk(v) THEN Respond(Failure(v.err)) /\ UNCHANGED stdin
           ELSE /\ stdin' = [merkle_siblings |-> v.val]
                /\ h_pc' = "root"
                /\ UNCHANGED response
    /\ UNCHANGED <<request, proof_verified, guestVars, fnVars, verifyVars, parseVars,
                   overflow_checks, threadVars>>

\* handlers.rs lines 136-157: validate and convert the merkle root, write the zkVM input
ValidateRoot ==
    /\ h_pc = "root"
    /\ LET v == hex_to_reversed_bytes(request.merkle_root)
       IN  IF ~IsOk(v) THEN Respond(Failure(v.err)) /\ UNCHANGED <<stdin, g_pc>>
           ELSE /\ stdin' = [tx_hash |-> request.tx_hash, tx |-> request.tx,
                             merkle_siblings |-> stdin.merkle_siblings,
                             position |-> request.position, merkle_root |-> v.val]
                /\ h_pc' = "prove"
                /\ g_pc' = "hash"
                /\ UNCHANGED response
    /\ UNCHANGED <<request, proof_verified, hash_valid, merkle_valid, public_values,
                   fnVars, verifyVars, parseVars, overflow_checks, threadVars>>

\* main.rs line 16, on the inputs read in lines 9-13
GuestHash ==
    /\ g_pc = "hash"
    /\ hash_valid' = verify_bitcoin_tx_hash(stdin.tx_hash, stdin.tx)
    /\ g_pc' = "merkle"
    /\ UNCHANGED <<merkle_valid, public_values, handlerVars, fnVars, verifyVars, parseVars,
                   overflow_checks, threadVars>>

\* main.rs lines 19-24: the leaf is hex::decode(tx_hash); both unwraps can panic
GuestMerkle ==
    /\ g_pc = "merkle"
    /\ LET leaf == hex_decode(stdin.tx_hash)
       IN  IF ~IsOk(leaf) \/ Len(leaf.val) # 32 THEN
               g_pc' = "panicked" /\ UNCHANGED merkle_valid
           ELSE /\ merkle_valid' = verify_merkle_proof(leaf.val, stdin.merkle_siblings,
                                                       stdin.position, stdin.merkle_root)
                /\ g_pc' = "commit"
    /\ UNCHANGED <<hash_valid, public_values, handlerVars, fnVars, verifyVars, parseVars,
                   overflow_checks, threadVars>>

\* main.rs lines 27-35
GuestCommit ==
    /\ g_pc = "commit"
    /\ public_values' = abi_encode(hash_valid /\ merkle_valid)
    /\ g_pc' = "committed"
    /\ UNCHANGED <<hash_valid, merkle_valid, handlerVars, fnVars, verifyVars, parseVars,
                   overflow_checks, threadVars>>

main == GuestHash \/ GuestMerkle \/ GuestCommit

\* handlers.rs lines 231-234 and 207-218: the guest did not run to its end
ProveFailed ==
    /\ h_pc = "prove"
    /\ g_pc = "panicked"
    /\ Respond(Failure("Proof generation failed: Failed to generate proof"))
    /\ UNCHANGED <<request, stdin, proof_verified, guestVars, fnVars, verifyVars,
                   parseVars, overflow_checks, threadVars>>

\* a handler that goes on to decode the public values whatever the local
\* verification of the proof said
VerifyAndRespondUnverified ==
    /\ h_pc = "prove"
    /\ g_pc = "committed"
    /\ \E verified \in BOOLEAN :
        LET decoded == abi_decode(public_values)
            values == Some(hex_encode(public_values))
        IN  /\ proof_verified' = verified
            /\ IF ~IsOk(decoded) THEN
                   Respond([success |-> FALSE, error |-> Some(decoded.err),
                            public_values |-> values, proof |-> Some(<<>>)])
               ELSE IF decoded.val.valid THEN
                   Respond([success |-> TRUE, error |-> None, public_values |-> values,
                            proof |-> Some(<<>>)])
               ELSE
                   Respond([success |-> FALSE,
                            error |-> Some("Validation failed: invalid hash or merkle proof"),
                            public_values |-> values, proof |-> Some(<<>>)])
    /\ UNCHANGED <<request, stdin, guestVars, fnVars, verifyVars, parseVars,
                   overflow_checks, threadVars>>

\* handlers.rs lines 237-245 and 161-206: local verification, which the prover's
\* environment decides, then the decoding of the public values
VerifyAndRespond ==
    /\ h_pc = "prove"
    /\ g_pc = "committed"
    /\ \E verified \in BOOLEAN :
        LET decoded == abi_decode(public_values)
            values == Some(hex_encode(public_values))
        IN  /\ proof_verified' = verified
            /\ IF ~verified THEN
                   Respond(Failure("Proof generation failed: Failed to verify proof"))
               ELSE IF ~IsOk(decoded) THEN
                   Respond([success |-> FALSE, error |-> Some(decoded.err),
                            public_values |-> values, proof |-> Some(<<>>)])
               ELSE IF decoded.val.valid THEN
                   Respond([success |-> TRUE, error |-> None, public_values |-> values,
                            proof |-> Some(<<>>)])
               ELSE
                   Respond([success |-> FALSE,
                            error |-> Some("Validation failed: invalid hash or merkle proof"),
                            public_values |-> values, proof |-> Some(<<>>)])
    /\ UNCHANGED <<request, stdin, guestVars, fnVars, verifyVars, parseVars,
                   overflow_checks, threadVars>>

generate_bitcoin_proof == ValidateSiblings \/ ValidateRoot \/ ProveFailed \/ VerifyAndRespond

\* the requests: the txid in display order, in internal order, too short, not hex;
\* roots in display order of the fold from the hash and from its reversal
ProveTxHashes(tx) ==
    {ToDisplay(sha256d(tx)), hex_encode(sha256d(tx)), hex_encode(Repeat(0, 31)), NotHex}

ProveRoots(tx, sibs, p) ==
    {ToDisplay(GoodRoot(tx, sibs, p)), hex_encode(GoodRoot(tx, sibs, p)),
     ToDisplay(RefFold(Reverse(sha256d(tx)), InternalOrEmpty(sibs), p)),
     ToDisplay(GoodRoot(tx, sibs, p + 1)), NotHex}

ProofRequests ==
    UNION {{[tx_hash |-> h, tx |-> hex_encode(tx), merkle_siblings |-> sibs, position |-> p,
             merkle_root |-> root] :
                <<h, root>> \in ProveTxHashes(tx) \X ProveRoots(tx, sibs, p)} :
            <<tx, sibs, p>> \in {TxPay, TxZero} \X SiblingLists \X (0..MaxPos)}

InitProve ==
    /\ request \in ProofRequests
    /\ h_pc = "siblings"
    /\ stdin = <<>>
    /\ response = <<>>
    /\ proof_verified = FALSE
    /\ GuestIdle
    /\ FnIdle
    /\ overflow_checks = TRUE
    /\ VerifyIdle
    /\ ParseIdle
    /\ OneInvocation

NextProve == generate_bitcoin_proof \/ main

SpecProve == InitProve /\ [][NextProve]_vars

\* a display-order hash in hex, reversed once
ToInternal(h) == [j \in 1..32 |-> HexBytes(h)[33 - j]]

\* C9: every display-order hash supplied from outside (expected txid, siblings, a
\* supplied Merkle root) is byte-reversed exactly once before it enters hash
\* arithmetic and values in internal order (computed leaf, header root field) are not
\* reversed, in the library's verify and in the guest fed by the request handler
C9_DisplayHashesReversedOnce ==
    /\ g_pc \in {"commit", "committed"} =>
        merkle_valid =
            (FoldCur(ToInternal(request.tx_hash),
                     [i \in 1..Len(request.merkle_siblings) |->
                        ToInternal(request.merkle_siblings[i])],
                     request.position, Len(request.merkle_siblings)).cur
                = ToInternal(request.merkle_root))
    /\ Len(trace) >= 1 /\ (pc = "done" => Len(trace) > 1) =>
        /\ leaf_internal = sha256d(HexBytes(tx_hex))
        /\ leaf_internal = ToInternal(expected_txid_hex)
    /\ Len(trace) >= 2 /\ (pc = "done" => Len(trace) > 2) =>
        siblings_internal =
            [i \in 1..Len(merkle_hex_siblings) |-> ToInternal(merkle_hex_siblings[i])]
    /\ Len(trace) >= 3 /\ (pc = "done" => Len(trace) > 3) =>
        merkle_root_internal = [j \in 1..32 |-> HexBytes(block_header_hex)[36 + j]]
    /\ Len(trace) >= 4 =>
        (MerklePasses <=> (pc = "done" => Len(trace) > 4))

\* a string that is not the hex of 32 bytes
NotHash(h) == ~(IsHexString(h) /\ Len(h) = 64)

\* C30: the /prove handler answers success = true only after the prover ran, the
\* proof verified locally, the public values decoded and the decoded valid flag is
\* true; when a Merkle sibling or the Merkle root is not 32-byte hex it answers
\* success = false with no public values and no proof, and the prover is never
\* invoked for that request
C30_SuccessOnlyAfterVerifiedProof ==
    /\ (h_pc = "done" /\ response.success) =>
            /\ g_pc = "committed"
            /\ proof_verified
            /\ IsOk(abi_decode(public_values))
            /\ abi_decode(public_values).val.valid
            /\ response.public_values = Some(hex_encode(public_values))
    /\ ((\E i \in 1..Len(request.merkle_siblings) : NotHash(request.merkle_siblings[i]))
            \/ NotHash(request.merkle_root)) =>
            /\ g_pc = "idle"
            /\ ~proof_verified
            /\ h_pc = "done" =>
                    /\ ~response.success
                    /\ response.public_values = None
                    /\ response.proof = None

\* a request was answered with success = true
C30_Witness ==
    /\ h_pc = "done"
    /\ response.success
    /\ Len(request.merkle_siblings) = 2

\* the library's txid check and Merkle inclusion check (lib.rs lines 355-382) on the
\* hashes of the request; the request carries the Merkle root that the library
\* reads from the header
LibraryTxidPasses ==
    /\ IsOk(verify_txid(request.tx_hash, request.tx))
    /\ verify_txid(request.tx_hash, request.tx).val

LibraryMerklePasses ==
    /\ IsOk(compute_raw_tx_hash_from_txhex(request.tx))
    /\ \A i \in 1..Len(request.merkle_siblings) :
            IsOk(hex_sibling_to_internal(request.merkle_siblings[i]))
    /\ IsOk(hex_sibling_to_internal(request.merkle_root))
    /\ verify_merkle_inclusion(
            compute_raw_tx_hash_from_txhex(request.tx).val,
            [i \in 1..Len(request.merkle_siblings) |->
                hex_sibling_to_internal(request.merkle_siblings[i]).val],
            request.position,
            hex_sibling_to_internal(request.merkle_root).val)

\* C22: for the same inputs the guest program derives the same outcome as the
\* library's verify: its public output is the pair (block hash in display order,
\* total amount), which one 32-byte ABI word cannot hold, and it commits a
\* successful outcome only for inputs on which the library's txid check and Merkle
\* inclusion check both pass
C22_GuestDerivesVerifyOutcome ==
    g_pc = "committed" =>
        /\ (IsOk(abi_decode(public_values)) /\ abi_decode(public_values).val.valid) =>
                (LibraryTxidPasses /\ LibraryMerklePasses)
        /\ Len(public_values) >= 64

(***************************************************************************)
(* The pure helpers, each applied on its own to arguments of its own       *)
(***************************************************************************)
CallParseVarint ==
    /\ fn = "parse_varint"
    /\ ~fn_done
    /\ fn_done' = TRUE
    /\ fn_ret' = parse_varint(fn_args.data)
    /\ UNCHANGED <<fn, fn_args, verifyVars, parseVars, overflow_checks, threadVars,
                   handlerVars, guestVars>>

\* compact-size encodings: the one-byte form, and each marker before payloads at
\* the ends of its range and inside it (canonical or not)
VarintEncodings ==
    {<<0>>, <<1>>, <<127>>, <<252>>}
        \cup {<<253>> \o b : b \in {<<0, 0>>, <<252, 0>>, <<253, 0>>, <<255, 255>>, <<0, 1>>,
                                     <<52, 18>>}}
        \cup {<<254>> \o b : b \in {<<0, 0, 0, 0>>, <<255, 255, 0, 0>>, <<0, 0, 1, 0>>,
                                     <<255, 255, 255, 255>>, <<4, 3, 2, 1>>}}
        \cup {<<255>> \o b : b \in {Repeat(0, 8), <<255, 255, 255, 255, 0, 0, 0, 0>>,
                                     <<0, 0, 0, 0, 1, 0, 0, 0>>, Repeat(255, 8),
                                     <<8, 7, 6, 5, 4, 3, 2, 1>>}}

\* what may follow an encoding in the buffer
VarintTrails == {<<>>, <<7>>, <<253, 1>>}

\* every encoding with every trail, every proper prefix of an encoding, the empty buffer
VarintCalls ==
    {[data |-> e \o t] : <<e, t>> \in VarintEncodings \X VarintTrails}
        \cup UNION {{[data |-> Slice(e, 0, n)] : n \in 0..(Len(e) - 1)} : e \in VarintEncodings}

CallExtractP2wpkh ==
    /\ fn = "extract_p2wpkh_address"
    /\ ~fn_done
    /\ fn_done' = TRUE
    /\ fn_ret' = extract_p2wpkh_address(fn_args.script)
    /\ UNCHANGED <<fn, fn_args, verifyVars, parseVars, overflow_checks, threadVars,
                   handlerVars, guestVars>>

\* the address extract_p2wpkh_address returned is handed to decode_bech32_pubkey_hash,
\* as sum_outputs_to_target does with the address of a parsed output
DecodeReturned ==
    /\ fn = "extract_p2wpkh_address"
    /\ fn_done
    /\ IsOk(fn_ret)
    /\ fn' = "decode_bech32_pubkey_hash"
    /\ fn_args' = [address |-> fn_ret.val]
    /\ fn_done' = FALSE
    /\ fn_ret' = NoResult
    /\ UNCHANGED <<verifyVars, parseVars, overflow_checks, threadVars,
                   handlerVars, guestVars>>

CallDecodeBech32 ==
    /\ fn = "decode_bech32_pubkey_hash"
    /\ ~fn_done
    /\ fn_done' = TRUE
    /\ fn_ret' = decode_bech32_pubkey_hash(fn_args.address)
    /\ UNCHANGED <<fn, fn_args, verifyVars, parseVars, overflow_checks, threadVars,
                   handlerVars, guestVars>>

\* 20-byte hashes: the model's three, all zeros, all ones, and spread bit patterns
RoundTripHashes ==
    {HashA, HashB, HashC, Repeat(0, 20), Repeat(255, 20)}
        \cup {[i \in 1..20 |-> (m * i + 5) % 256] : m \in {37, 85, 128, 170, 201}}

\* scripts for extract_p2wpkh_address: OP_0 <20 bytes> of each hash, and scripts it
\* does not take for P2WPKH
ExtractCalls ==
    {[script |-> ScriptP2WPKH(h)] : h \in RoundTripHashes}
        \cup {[script |-> s] : s \in {ScriptP2PKH(HashA), ScriptOther, <<>>,
                                       <<0, 20>> \o Repeat(1, 19), <<1, 20>> \o HashA}}

\* the human-readable parts bc, tb, ltc and bcrt
DecodeHrps == {<<98, 99>>, <<116, 98>>, <<108, 116, 99>>, <<98, 99, 114, 116>>}

\* data parts built on a hash h: witness version 0 or 1 before the 32 groups of h;
\* one more all-zero group; two more groups with a set padding bit; the groups of
\* 21, 32 and 19 bytes
DecodeDataForms(h) ==
    {<<0>> \o FiveBitGroups(h),
     <<1>> \o FiveBitGroups(h),
     <<0>> \o FiveBitGroups(h) \o <<0>>,
     <<0>> \o FiveBitGroups(h) \o <<0, 1>>,
     <<0>> \o FiveBitGroups(h \o <<9>>),
     <<0>> \o FiveBitGroups(h \o Repeat(9, 12)),
     <<0>> \o FiveBitGroups([i \in 1..19 |-> h[i]])}

\* what the addresses handed to decode_bech32_pubkey_hash are encoded from
DecodeCases ==
    {[hrp |-> p, data |-> d, variant |-> v] :
        <<p, d, v>> \in DecodeHrps
            \X (UNION {DecodeDataForms(h) : h \in {HashA, Repeat(0, 20), Repeat(255, 20)}}
                    \cup {<<>>, <<0>>})
            \X {"Bech32", "Bech32m"}}
        \cup {[hrp |-> <<116, 98>>, data |-> <<0>> \o FiveBitGroups(h), variant |-> "Bech32"] :
                h \in RoundTripHashes}

\* the address of each case
CaseAddress == [c \in DecodeCases |-> bech32_encode(c.hrp, c.data, c.variant)]

\* strings that are no bech32 encoding of anything, and AddrB in upper case
RawAddresses ==
    {<<>>, AddrA, AddrBadBech32, [i \in 1..Len(AddrB) |-> IF i = Len(AddrB) THEN 113 ELSE AddrB[i]],
     [i \in 1..Len(AddrB) |-> IF i = 5 THEN 81 ELSE AddrB[i]],
     [i \in 1..Len(AddrB) |-> IF IsLower(AddrB[i]) THEN AddrB[i] - 32 ELSE AddrB[i]]}

DecodeCalls ==
    {[address |-> CaseAddress[c]] : c \in DecodeCases}
        \cup {[address |-> a] : a \in RawAddresses}

CallHexSiblingToInternal ==
    /\ fn = "hex_sibling_to_internal"
    /\ ~fn_done
    /\ fn_done' = TRUE
    /\ fn_ret' = hex_sibling_to_internal(fn_args.s)
    /\ UNCHANGED <<fn, fn_args, verifyVars, parseVars, overflow_checks, threadVars,
                   handlerVars, guestVars>>

\* 32-byte hashes: digests, spread byte patterns, all zeros, and one that reads the
\* same in both orders
ConvHashes ==
    {sha256d(TxPay), sha256d(TxZero), Repeat(0, 32), [i \in 1..32 |-> i],
     [i \in 1..32 |-> IF i <= 16 THEN 16 * i - 15 ELSE 16 * (33 - i) - 15]}
        \cup {SiblingBytes(n) : n \in 1..6}

\* the hex of each hash as it stands and in display order, in lower case; the first
\* in upper case; strings that are not the hex of 32 bytes
ConvCalls ==
    {[s |-> hex_encode(x)] : x \in ConvHashes}
        \cup {[s |-> ToDisplay(x)] : x \in ConvHashes}
        \cup {[s |-> t] : t \in {[i \in 1..64 |-> IF IsLower(hex_encode(sha256d(TxPay))[i])
                                                  THEN hex_encode(sha256d(TxPay))[i] - 32
                                                  ELSE hex_encode(sha256d(TxPay))[i]],
                                 NotHex, <<>>, hex_encode(Repeat(7, 31)),
                                 hex_encode(Repeat(7, 33)), Tail(hex_encode(Repeat(7, 32)))}}

InitFn ==
    /\ \/ fn = "parse_varint" /\ fn_args \in VarintCalls
       \/ fn = "extract_p2wpkh_address" /\ fn_args \in ExtractCalls
       \/ fn = "decode_bech32_pubkey_hash" /\ fn_args \in DecodeCalls
       \/ fn = "hex_sibling_to_internal" /\ fn_args \in ConvCalls
    /\ OnlyFn

NextFn ==
    \/ CallParseVarint
    \/ CallExtractP2wpkh
    \/ DecodeReturned
    \/ CallDecodeBech32
    \/ CallHexSiblingToInternal

SpecFn == InitFn /\ [][NextFn]_vars

\* the encodings of the values at the ends of each form's range, with the value
\* (16-bit limbs, least significant first) and the width of each
VarintBoundaries ==
    {<<<<0>>, <<0, 0, 0, 0>>, 1>>,
     <<<<252>>, <<252, 0, 0, 0>>, 1>>,
     <<<<253, 253, 0>>, <<253, 0, 0, 0>>, 3>>,
     <<<<253, 255, 255>>, <<65535, 0, 0, 0>>, 3>>,
     <<<<254, 0, 0, 1, 0>>, <<0, 1, 0, 0>>, 5>>,
     <<<<254, 255, 255, 255, 255>>, <<65535, 65535, 0, 0>>, 5>>,
     <<<<255, 255, 255, 255, 255, 255, 255, 255, 255>>, <<65535, 65535, 65535, 65535>>, 9>>}

\* C13: on a buffer with enough bytes parse_varint returns (value, consumed):
\* a first byte b below 0xfd gives (b, 1), 0xfd the next 2 bytes little-endian
\* and 3, 0xfe the next 4 bytes and 5, 0xff the next 8 bytes and 9, also at the
\* values 0, 252, 253, 65535, 65536, 2^32-1 and 2^64-1
C13_VarintValueAndWidth ==
    (fn = "parse_varint" /\ fn_done /\ ~VarintShort(fn_args.data, 0)) =>
        /\ fn_ret = Ok([value |-> VarintValue(fn_args.data, 0),
                        len |-> VarintWidth(fn_args.data, 0)])
        /\ fn_args.data[1] < 253 => fn_ret.val = [value |-> <<fn_args.data[1], 0, 0, 0>>, len |-> 1]
        /\ fn_ret.val.len = CASE fn_args.data[1] = 253 -> 3
                               [] fn_args.data[1] = 254 -> 5
                               [] fn_args.data[1] = 255 -> 9
                               [] OTHER -> 1
        /\ \A t \in VarintBoundaries :
                IsPrefix(t[1], fn_args.data) => fn_ret = Ok([value |-> t[2], len |-> t[3]])

\* every boundary value has been parsed from a buffer that goes on after it; this
\* state is the one of 2^64-1
C13_Witness ==
    /\ fn = "parse_varint"
    /\ fn_done
    /\ fn_args.data = <<255, 255, 255, 255, 255, 255, 255, 255, 255, 253, 1>>
    /\ fn_ret = Ok([value |-> U64Max, len |-> 9])

\* bit i (from 0) of a sequence g of 5-bit groups, most significant first
BitOfGroups(g, i) == (g[(i \div 5) + 1] \div (2 ^ (4 - (i % 5)))) % 2

\* the whole bytes the bits of g make
EightBitGroups(g) ==
    [k \in 1..((5 * Len(g)) \div 8) |->
        LET bit(j) == BitOfGroups(g, 8 * (k - 1) + j)
        IN  128 * bit(0) + 64 * bit(1) + 32 * bit(2) + 16 * bit(3)
                + 8 * bit(4) + 4 * bit(5) + 2 * bit(6) + bit(7)]

\* the bits of g left after the whole bytes are five or more, or are not all zero
BadPadding(g) ==
    LET left == (5 * Len(g)) % 8
    IN  left >= 5 \/ (left > 0 /\ g[Len(g)] % (2 ^ left) # 0)

\* one of the conditions under which the decoder is to refuse the case c
MustRefuse(c) ==
    \/ c.hrp \notin {<<98, 99>>, <<116, 98>>}
    \/ c.variant # "Bech32"
    \/ c.data = <<>>
    \/ c.data[1] # 0
    \/ BadPadding(Tail(c.data))
    \/ Len(EightBitGroups(Tail(c.data))) # 20

\* C17: decode_bech32_pubkey_hash returns either exactly 20 bytes or an error, and
\* an error whenever the hrp is neither bc nor tb, the variant is not Bech32, the
\* data part is empty, the witness version is not 0, the regrouping of 5-bit groups
\* into bytes has non-zero or excess padding, or the payload is not 20 bytes
C17_TwentyBytesOrError ==
    (fn = "decode_bech32_pubkey_hash" /\ fn_done) =>
        /\ (IsOk(fn_ret) /\ Len(fn_ret.val) = 20) \/ IsErr(fn_ret)
        /\ \A c \in DecodeCases :
                (CaseAddress[c] = fn_args.address /\ MustRefuse(c)) => IsErr(fn_ret)
        /\ fn_args.address \in RawAddresses /\ IsOk(fn_ret) =>
                \E i \in 1..Len(fn_args.address) : IsUpper(fn_args.address[i])

\* a version-0 Bech32 address under hrp bc whose data part carries 32 bytes was refused
C17_Witness ==
    /\ fn = "decode_bech32_pubkey_hash"
    /\ fn_done
    /\ fn_args.address =
        CaseAddress[[hrp |-> <<98, 99>>,
                     data |-> <<0>> \o FiveBitGroups(HashA \o Repeat(9, 12)),
                     variant |-> "Bech32"]]
    /\ fn_ret = Err("expected 20 bytes")

\* C18: for every 20-byte h, decoding the address that extract_p2wpkh_address
\* gives for the script 0x00 0x14 h returns h, and so does decoding the address
\* of h encoded with hrp tb
C18_Bech32RoundTrip ==
    (fn = "decode_bech32_pubkey_hash" /\ fn_done) =>
        \A h \in RoundTripHashes :
            \/ fn_args.address = extract_p2wpkh_address(<<0, 20>> \o h).val
            \/ fn_args.address = bech32_encode(<<116, 98>>, <<0>> \o FiveBitGroups(h), "Bech32")
            => fn_ret = Ok(h)

\* the address extract_p2wpkh_address returned for a hash of spread bits was decoded
C18_Witness ==
    /\ fn = "decode_bech32_pubkey_hash"
    /\ fn_done
    /\ fn_args.address \notin {CaseAddress[c] : c \in DecodeCases}
    /\ fn_ret = Ok([i \in 1..20 |-> (37 * i + 5) % 256])

\* a string that is not the hex of 32 bytes
BadHash(h) == ~IsHexString(h) \/ Len(h) # 64

\* C19: converting a display-order hash to internal order fails with an error
\* value and never panics whenever the input is not valid hex or is not 32 bytes
\* long: for the expected txid and every sibling in the library's verify, and for
\* the transaction hash handed to the guest program
C19_BadHashIsErrorNeverPanic ==
    /\ (pc = "done" /\ BadHash(expected_txid_hex)) => IsErr(result)
    /\ (pc = "done" /\ TxidPasses /\ \E i \in 1..Len(merkle_hex_siblings) :
                                        BadHash(merkle_hex_siblings[i])) => IsErr(result)
    /\ ~(g_pc = "panicked" /\ BadHash(request.tx_hash))

\* the bytes of x from the last to the first
Backwards(x) == [i \in 1..32 |-> x[33 - i]]

\* C20: the conversion between display and internal order is the plain reversal
\* of the 32 bytes and is its own inverse: hex_sibling_to_internal on the hex of x
\* returns x reversed, on the display form of x it returns x, and the display form
\* of what it returns is the string it was given
C20_ReversalIsItsOwnInverse ==
    (fn = "hex_sibling_to_internal" /\ fn_done) =>
        /\ \A x \in ConvHashes :
            /\ fn_args.s = hex_encode(x) => fn_ret = Ok(Backwards(x))
            /\ fn_args.s = ToDisplay(x) => fn_ret = Ok(x)
        /\ (IsOk(fn_ret) /\ \A i \in 1..Len(fn_args.s) : ~IsUpper(fn_args.s[i])) =>
            /\ ToDisplay(fn_ret.val) = fn_args.s
            /\ Backwards(Backwards(fn_ret.val)) = fn_ret.val

\* the display form of a hash whose bytes all differ was converted back to the hash
C20_Witness ==
    /\ fn = "hex_sibling_to_internal"
    /\ fn_done
    /\ fn_args.s = ToDisplay([i \in 1..32 |-> i])
    /\ fn_ret = Ok([i \in 1..32 |-> i])
    /\ fn_ret.val # Backwards(fn_ret.val)

=============================================================================
